---- MODULE Spec2Model ----
(***************************************************************************)
(* RAM barcode scanner (src/main.py): the barcode canonicaliser, the       *)
(* module-class codec, the heuristic classifier, the mapping store and the *)
(* permanent variant/version registry with its two persisted files.        *)
(*                                                                         *)
(* Representation.  A Python str is a sequence of one-character strings    *)
(* (<<"P","C","3">>), so that the code's scanning, splitting and regex     *)
(* matching can be computed.  An Optional value is <<>> (None) or <<v>>.   *)
(* Manufacturer names are only compared and stored by the code, so they    *)
(* are atomic strings, with "" the empty name.  Timestamps are left out of *)
(* the scan records: no operation reads them.                              *)
(***************************************************************************)
EXTENDS Integers, Sequences, FiniteSets, TLC

(***************************************************************************)
(* Optional values and Python truthiness                                   *)
(***************************************************************************)
None == <<>>

Some(v) == <<v>>

\* bool(x) for Optional[int]: None and 0 are falsy
TruthyInt(o) == o # <<>> /\ o[1] # 0

\* bool(x) for Optional[str] held as a character sequence: None and "" are falsy
TruthyStr(o) == o # <<>> /\ Len(o[1]) > 0

\* bool(x) for Optional[str] held as an atomic name
TruthyName(o) == o # <<>> /\ o[1] # ""

(***************************************************************************)
(* Characters                                                              *)
(***************************************************************************)
Digits == <<"0", "1", "2", "3", "4", "5", "6", "7", "8", "9">>

LowerLetters == <<"a", "b", "c", "d", "e", "f", "g", "h", "i", "j", "k", "l", "m",
                  "n", "o", "p", "q", "r", "s", "t", "u", "v", "w", "x", "y", "z">>

UpperLetters == <<"A", "B", "C", "D", "E", "F", "G", "H", "I", "J", "K", "L", "M",
                  "N", "O", "P", "Q", "R", "S", "T", "U", "V", "W", "X", "Y", "Z">>

Range(f) == {f[i] : i \in DOMAIN f}

IsDigit(c) == c \in Range(Digits)

IsLower(c) == c \in Range(LowerLetters)

IsUpper(c) == c \in Range(UpperLetters)

IsAlpha(c) == IsLower(c) \/ IsUpper(c)

\* \w of the re module
IsWord(c) == IsDigit(c) \/ IsAlpha(c) \/ c = "_"

\* \s of the re module, str.strip() and str.split()
IsSpace(c) == c \in {" ", "\t"}

\* int(c) of a decimal digit
DigitValue == [c \in Range(Digits) |-> (CHOOSE i \in DOMAIN Digits : Digits[i] = c) - 1]

\* the lower-case letter of an upper-case letter, and the reverse; every other
\* character is left as it is
LowerC(c) ==
    IF IsUpper(c) THEN LowerLetters[CHOOSE i \in DOMAIN UpperLetters : UpperLetters[i] = c] ELSE c

UpperC(c) ==
    IF IsLower(c) THEN UpperLetters[CHOOSE i \in DOMAIN LowerLetters : LowerLetters[i] = c] ELSE c

\* str.lower()
Lower(s) == [i \in 1..Len(s) |-> LowerC(s[i])]

\* str.upper()
Upper(s) == [i \in 1..Len(s) |-> UpperC(s[i])]

\* s[a-1:b] of Python, 1-based and inclusive here
Slice(s, a, b) == IF a > b THEN <<>> ELSE SubSeq(s, a, b)

\* str.strip()
Strip(s) ==
    LET keep == {i \in 1..Len(s) : ~IsSpace(s[i])}
    IN IF keep = {} THEN <<>>
       ELSE Slice(s, CHOOSE i \in keep : \A j \in keep : i <= j,
                     CHOOSE i \in keep : \A j \in keep : i >= j)

\* str.isdigit()
IsDigitStr(s) == Len(s) > 0 /\ \A i \in 1..Len(s) : IsDigit(s[i])

RECURSIVE ToInt(_)
\* int(s) for a string of decimal digits
ToInt(s) == IF Len(s) = 0 THEN 0 ELSE ToInt(Slice(s, 1, Len(s) - 1)) * 10 + DigitValue[s[Len(s)]]

RECURSIVE IntToStr(_)
\* str(n) for n >= 0
IntToStr(n) == IF n < 10 THEN <<Digits[n + 1]>> ELSE IntToStr(n \div 10) \o <<Digits[(n % 10) + 1]>>

\* the literal lit occurs in s at position i
LitAt(s, i, lit) == i >= 1 /\ i + Len(lit) - 1 <= Len(s) /\ \A k \in 1..Len(lit) : s[i + k - 1] = lit[k]

\* "lit in s"
Contains(s, lit) == \E i \in 1..(Len(s) + 1) : LitAt(s, i, lit)

\* the least element of a non-empty set of integers
Least(S) == CHOOSE x \in S : \A y \in S : x <= y

RECURSIVE DigitRun(_, _), SpaceRun(_, _), AlphaRun(_, _)
\* the number of consecutive characters from position i on that satisfy the class
DigitRun(s, i) == IF i > Len(s) \/ ~IsDigit(s[i]) THEN 0 ELSE 1 + DigitRun(s, i + 1)

SpaceRun(s, i) == IF i > Len(s) \/ ~IsSpace(s[i]) THEN 0 ELSE 1 + SpaceRun(s, i + 1)

AlphaRun(s, i) == IF i > Len(s) \/ ~IsAlpha(s[i]) THEN 0 ELSE 1 + AlphaRun(s, i + 1)

\* \b of the re module at the gap before position i (i in 1..Len(s)+1)
WordBoundary(s, i) ==
    LET before == i > 1 /\ IsWord(s[i - 1])
        after == i <= Len(s) /\ IsWord(s[i])
    IN before # after

\* Python 3 round(n / d) for n >= 0, d > 0: ties go to the even integer
RoundHalfEven(n, d) ==
    LET q == n \div d
        r == n % d
    IN IF 2 * r < d THEN q
       ELSE IF 2 * r > d THEN q + 1
       ELSE IF q % 2 = 0 THEN q ELSE q + 1

(***************************************************************************)
(* Module-class codec                                                      *)
(***************************************************************************)
\* COMMON_MB_TO_MTS, in the dict's insertion order: <<bandwidth MB/s, speed MT/s>>
COMMON_MB_TO_MTS ==
    << <<6400, 800>>, <<8500, 1066>>, <<8533, 1066>>, <<10600, 1333>>, <<10660, 1333>>,
       <<10700, 1333>>, <<12800, 1600>>, <<14900, 1866>>, <<15000, 1866>>, <<16000, 2000>>,
       <<17000, 2133>>, <<17900, 2250>>, <<19200, 2400>>, <<21300, 2666>>, <<22400, 2800>>,
       <<23000, 2888>>, <<24000, 3000>>, <<25600, 3200>>, <<28800, 3600>>, <<32000, 4000>> >>

\* an inverse table in which the last bandwidth inserted for a speed wins
SpeedToMbLastWins(mts) ==
    LET hits == {i \in DOMAIN COMMON_MB_TO_MTS : COMMON_MB_TO_MTS[i][2] = mts}
    IN IF hits = {} THEN None
       ELSE Some(COMMON_MB_TO_MTS[CHOOSE i \in hits : \A j \in hits : j <= i][1])

\* SPEED_TO_MB.get(speed): setdefault keeps the first bandwidth inserted for a speed
SPEED_TO_MB(mts) ==
    LET hits == {i \in DOMAIN COMMON_MB_TO_MTS : COMMON_MB_TO_MTS[i][2] = mts}
    IN IF hits = {} THEN None ELSE Some(COMMON_MB_TO_MTS[Least(hits)][1])

\* re.sub(r"[^A-Z0-9]", "", m)
RECURSIVE KeepUpperAlnum(_)
KeepUpperAlnum(s) ==
    IF Len(s) = 0 THEN <<>>
    ELSE (IF IsUpper(Head(s)) \/ IsDigit(Head(s)) THEN <<Head(s)>> ELSE <<>>) \o KeepUpperAlnum(Tail(s))

\* the module class for a normalised type text m ("DDR" and a digit) and a speed
SynthOfType(m, mb) ==
    IF ~LitAt(m, 1, <<"D", "D", "R">>) \/ Len(m) < 4 \/ ~IsDigit(m[4]) THEN None
    ELSE Some(<<"P", "C", m[4], "-">> \o IntToStr(mb))

\* the bandwidth computed from the speed for every speed, without the table
MbOfSpeedComputed(speed) == RoundHalfEven(speed * 8, 100) * 100

\* the bandwidth synth_module_class prints for a speed: the table's, else speed*8
\* rounded to the nearest hundred
MbOfSpeed(speed) ==
    IF SPEED_TO_MB(speed) # None THEN SPEED_TO_MB(speed)[1]
    ELSE RoundHalfEven(speed * 8, 100) * 100

\* synth_module_class(mem_type, speed_mts): Optional str from Optional str, Optional int
synth_module_class(mem_type, speed_mts) ==
    IF ~TruthyStr(mem_type) \/ ~TruthyInt(speed_mts) THEN None
    ELSE SynthOfType(KeepUpperAlnum(Upper(mem_type[1])), MbOfSpeed(speed_mts[1]))

\* the first element of a sequence of Optionals that is not None
FirstSome(options) ==
    LET hits == {i \in 1..Len(options) : options[i] # None}
    IN IF hits = {} THEN None ELSE options[Least(hits)]

\* the groups of a match of MODULE_CLASS_RE: gen is s[g0..a-1], lv the lvLen
\* characters at a, rating the r digits at c, suffix the letters after them
ModuleClassGroups(s, g0, a, lvLen, c, r) ==
    Some([gen |-> Slice(s, g0, a - 1),
          lv |-> IF lvLen = 1 THEN <<s[a]>> ELSE <<>>,
          rating |-> Slice(s, c, c + r - 1),
          suffix |-> Slice(s, c + r, c + r + AlphaRun(s, c + r) - 1)])

\* the rest of MODULE_CLASS_RE after a gen that ends before position a, with
\* the optional l and the optional separator taken (1) or left (0)
ModuleClassTry(s, g0, a, lv, sep) ==
    IF /\ (lv = 0 \/ (a <= Len(s) /\ LowerC(s[a]) = "l"))
       /\ (sep = 0 \/ (a + lv <= Len(s) /\ s[a + lv] \in {"-", " "}))
       /\ DigitRun(s, a + lv + sep) >= 3
    THEN ModuleClassGroups(s, g0, a, lv, a + lv + sep,
                           IF DigitRun(s, a + lv + sep) > 6 THEN 6 ELSE DigitRun(s, a + lv + sep))
    ELSE None

\* MODULE_CLASS_RE after "pc", for a run of n digits at g0.  gen is greedy: it
\* takes the whole run when 3..6 digits follow the optional l and separator,
\* and otherwise gives digits back until three are left for the rating.
ModuleClassFrom(s, g0, n) ==
    IF n = 0 THEN None
    ELSE FirstSome(<<ModuleClassTry(s, g0, g0 + n, 1, 1),
                     ModuleClassTry(s, g0, g0 + n, 1, 0),
                     ModuleClassTry(s, g0, g0 + n, 0, 1),
                     ModuleClassTry(s, g0, g0 + n, 0, 0),
                     IF n >= 4 THEN ModuleClassGroups(s, g0, g0 + n - 3, 0, g0 + n - 3, 3) ELSE None>>)

\* MODULE_CLASS_RE matched at position i of s (re.IGNORECASE):
\*   pc(?P<gen>\d+)(?P<lv>l)?[- ]?(?P<rating>\d{3,6})(?P<suffix>[a-zA-Z]*)
\* The result is None or Some([gen, lv, rating, suffix]).
ModuleClassMatchAt(s, i) ==
    IF ~(i + 1 <= Len(s) /\ LowerC(s[i]) = "p" /\ LowerC(s[i + 1]) = "c") THEN None
    ELSE ModuleClassFrom(s, i + 2, DigitRun(s, i + 2))

\* MODULE_CLASS_RE.search(s): the leftmost match
ModuleClassSearch(s) ==
    LET at == {i \in 1..Len(s) : ModuleClassMatchAt(s, i) # None}
    IN IF at = {} THEN None ELSE ModuleClassMatchAt(s, Least(at))

\* the canonical text extract_module_class builds from a match
ClassOfMatch(m) ==
    IF m = None THEN None
    ELSE Some(<<"P", "C">> \o m[1].gen \o Upper(m[1].lv) \o <<"-">> \o m[1].rating \o Upper(m[1].suffix))

\* extract_module_class(text)
extract_module_class(text) == ClassOfMatch(ModuleClassSearch(text))

\* the speed with the rating divided by 8 and the fraction dropped
RatingToSpeedFloor(rating_int) ==
    IF \E i \in DOMAIN COMMON_MB_TO_MTS : COMMON_MB_TO_MTS[i][1] = rating_int
    THEN COMMON_MB_TO_MTS[CHOOSE i \in DOMAIN COMMON_MB_TO_MTS : COMMON_MB_TO_MTS[i][1] = rating_int][2]
    ELSE IF rating_int < 4000 THEN rating_int
    ELSE IF rating_int \div 8 < 1 THEN 1 ELSE rating_int \div 8

\* the rating taken as the speed, without the table and without the division by 8
RatingAsSpeed(rating_int) == rating_int

\* the speed parse_module_class derives from the integer rating
RatingToSpeed(rating_int) ==
    IF \E i \in DOMAIN COMMON_MB_TO_MTS : COMMON_MB_TO_MTS[i][1] = rating_int
    THEN COMMON_MB_TO_MTS[CHOOSE i \in DOMAIN COMMON_MB_TO_MTS : COMMON_MB_TO_MTS[i][1] = rating_int][2]
    ELSE IF rating_int < 4000 THEN rating_int
    ELSE IF RoundHalfEven(rating_int, 8) < 1 THEN 1 ELSE RoundHalfEven(rating_int, 8)

\* what parse_module_class returns when the text holds no module class
NoClassFields == [mem_type |-> None, speed |-> None, ecc |-> None]

\* the fields parse_module_class reads from a match: the type from the
\* generation digit ({"2": "DDR2", ..., "5": "DDR5"}.get(gen)), the speed from
\* the rating, ECC True when the upper-cased suffix holds E or Q
FieldsOfMatch(m) ==
    IF m = None THEN NoClassFields
    ELSE [mem_type |-> IF Len(m[1].gen) = 1 /\ m[1].gen[1] \in {"2", "3", "4", "5"}
                       THEN Some(<<"D", "D", "R", m[1].gen[1]>>) ELSE None,
          speed |-> Some(RatingToSpeed(ToInt(m[1].rating))),
          ecc |-> IF Contains(Upper(m[1].suffix), <<"E">>) \/ Contains(Upper(m[1].suffix), <<"Q">>)
                  THEN Some(TRUE) ELSE None]

\* parse_module_class(module_class): [mem_type, speed, ecc], each Optional
parse_module_class(module_class) == FieldsOfMatch(ModuleClassSearch(Upper(Strip(module_class))))

(***************************************************************************)
(* Heuristic patterns (searched in the lower-cased barcode)                *)
(***************************************************************************)
\* MANUFACTURER_HINTS, in the dict's insertion order: <<keyword, name>>
MANUFACTURER_HINTS ==
    << << <<"s", "a", "m", "s", "u", "n", "g">>, "Samsung" >>,
       << <<"h", "y", "n", "i", "x">>, "SK Hynix" >>,
       << <<"s", "k", "h", "y", "n", "i", "x">>, "SK Hynix" >>,
       << <<"m", "i", "c", "r", "o", "n">>, "Micron" >>,
       << <<"c", "r", "u", "c", "i", "a", "l">>, "Crucial" >>,
       << <<"k", "i", "n", "g", "s", "t", "o", "n">>, "Kingston" >>,
       << <<"g", "s", "k", "i", "l", "l">>, "G.SKILL" >>,
       << <<"g", ".", "s", "k", "i", "l", "l">>, "G.SKILL" >>,
       << <<"a", "d", "a", "t", "a">>, "ADATA" >>,
       << <<"c", "o", "r", "s", "a", "i", "r">>, "Corsair" >>,
       << <<"p", "a", "t", "r", "i", "o", "t">>, "Patriot" >>,
       << <<"t", "e", "a", "m", "g", "r", "o", "u", "p">>, "TeamGroup" >>,
       << <<"l", "e", "x", "a", "r">>, "Lexar" >>,
       << <<"r", "a", "m", "a", "x", "e", "l">>, "Ramaxel" >>,
       << <<"n", "a", "n", "y", "a">>, "Nanya" >> >>

\* the loop over MANUFACTURER_HINTS: the first keyword contained in the text
HeuristicManufacturer(lower) ==
    LET hits == {i \in DOMAIN MANUFACTURER_HINTS : Contains(lower, MANUFACTURER_HINTS[i][1])}
    IN IF hits = {} THEN None ELSE Some(MANUFACTURER_HINTS[Least(hits)][2])

\* TYPE_PATTERNS, in the dict's insertion order: <<"ddr" or "pc", generation digit>>;
\* the ddr patterns allow whitespace before the digit (ddr\s*5), the pc ones do not
TYPE_PATTERNS ==
    << <<"ddr", "5">>, <<"ddr", "4">>, <<"ddr", "3">>, <<"ddr", "2">>,
       <<"pc", "5">>, <<"pc", "4">>, <<"pc", "3">>, <<"pc", "2">> >>

\* re.search(pat, lower) for one entry of TYPE_PATTERNS
TypePatternFound(lower, pat) ==
    IF pat[1] = "ddr"
    THEN \E i \in 1..Len(lower) :
            /\ LitAt(lower, i, <<"d", "d", "r">>)
            /\ LitAt(lower, i + 3 + SpaceRun(lower, i + 3), <<pat[2]>>)
    ELSE Contains(lower, <<"p", "c", pat[2]>>)

\* the loop over TYPE_PATTERNS: the first pattern found gives the type
HeuristicType(lower) ==
    LET hits == {i \in DOMAIN TYPE_PATTERNS : TypePatternFound(lower, TYPE_PATTERNS[i])}
    IN IF hits = {} THEN None ELSE Some(<<"D", "D", "R", TYPE_PATTERNS[Least(hits)][2]>>)

\* \b(\d+)\s*<unit>\b matched at position i: None or Some(group 1)
SizeUnitMatchAt(s, i, unit) ==
    LET n == DigitRun(s, i)
        u == i + n + SpaceRun(s, i + n)
    IN IF i <= Len(s) /\ WordBoundary(s, i) /\ n >= 1 /\ LitAt(s, u, unit)
          /\ WordBoundary(s, u + Len(unit))
       THEN Some(Slice(s, i, i + n - 1)) ELSE None

\* \b(\d+)\s*x?\s*\d+gb\b matched at position i: None or Some(group 1).  Group 1
\* is greedy: it takes the whole digit run when a second number follows, and
\* otherwise gives back one digit, which \d+ takes when "gb" follows the run.
SizeTimesMatchAt(s, i) ==
    LET n == DigitRun(s, i)
        a == i + n + SpaceRun(s, i + n)
        b == IF LitAt(s, a, <<"x">>) THEN a + 1 + SpaceRun(s, a + 1) ELSE a
        Tail2(c) == LET m == DigitRun(s, c)
                    IN m >= 1 /\ LitAt(s, c + m, <<"g", "b">>) /\ WordBoundary(s, c + m + 2)
    IN IF ~(i <= Len(s) /\ WordBoundary(s, i) /\ n >= 1) THEN None
       ELSE IF Tail2(b) THEN Some(Slice(s, i, i + n - 1))
       ELSE IF n >= 2 /\ LitAt(s, i + n, <<"g", "b">>) /\ WordBoundary(s, i + n + 2)
            THEN Some(Slice(s, i, i + n - 2))
       ELSE None

\* re.search of SIZE_PATTERNS[k] in s: None or Some(group 1)
SizePatternSearch(s, k) ==
    LET At(i) == IF k = 1 THEN SizeUnitMatchAt(s, i, <<"g", "b">>)
                 ELSE IF k = 2 THEN SizeUnitMatchAt(s, i, <<"g">>)
                 ELSE SizeTimesMatchAt(s, i)
        at == {i \in 1..Len(s) : At(i) # None}
    IN IF at = {} THEN None ELSE At(Least(at))

\* the loop over SIZE_PATTERNS: int(group 1) of the first pattern that matches
HeuristicSize(lower) ==
    LET hits == {k \in 1..3 : SizePatternSearch(lower, k) # None}
    IN IF hits = {} THEN None ELSE Some(ToInt(SizePatternSearch(lower, Least(hits))[1]))

\* \b(\d{3,5})\s*mt\/?s\b (k = 1) or \b(\d{3,5})\s*mhz\b (k = 2) at position i
SpeedMatchAt(s, i, k) ==
    LET n == DigitRun(s, i)
        u == i + n + SpaceRun(s, i + n)
        e == IF k = 2 THEN (IF LitAt(s, u, <<"m", "h", "z">>) THEN u + 3 ELSE 0)
             ELSE IF LitAt(s, u, <<"m", "t", "/", "s">>) THEN u + 4
             ELSE IF LitAt(s, u, <<"m", "t", "s">>) THEN u + 3
             ELSE 0
    IN IF i <= Len(s) /\ WordBoundary(s, i) /\ n >= 3 /\ n <= 5 /\ e > 0 /\ WordBoundary(s, e)
       THEN Some(Slice(s, i, i + n - 1)) ELSE None

\* re.search of SPEED_PATTERNS[k] in s: None or Some(group 1)
SpeedPatternSearch(s, k) ==
    LET at == {i \in 1..Len(s) : SpeedMatchAt(s, i, k) # None}
    IN IF at = {} THEN None ELSE SpeedMatchAt(s, Least(at), k)

\* the loop over SPEED_PATTERNS
HeuristicSpeed(lower) ==
    LET hits == {k \in 1..2 : SpeedPatternSearch(lower, k) # None}
    IN IF hits = {} THEN None ELSE Some(ToInt(SpeedPatternSearch(lower, Least(hits))[1]))

(***************************************************************************)
(* Canonicalisation                                                        *)
(***************************************************************************)
RECURSIVE Split(_)
\* str.split(): the maximal runs of non-whitespace characters
Split(s) ==
    LET lead == SpaceRun(s, 1)
        rest == Slice(s, lead + 1, Len(s))
        n == Least({k \in 0..Len(rest) : k + 1 > Len(rest) \/ IsSpace(rest[k + 1])})
    IN IF Len(rest) = 0 THEN <<>>
       ELSE <<Slice(rest, 1, n)>> \o Split(Slice(rest, n + 1, Len(rest)))

\* the candidate kept whole, "+" and what follows it included
BeforePlusKept(c) == c

\* candidate.split("+", 1)[0]
BeforePlus(c) ==
    LET at == {i \in 1..Len(c) : c[i] = "+"}
    IN IF at = {} THEN c ELSE Slice(c, 1, Least(at) - 1)

\* a canonicalisation that drops the country code and keeps the rest of the
\* text up to its first "+", without choosing one token
CleanWholeText(raw) ==
    LET s == Strip(raw)
        tokens0 == Split(s)
    IN IF Len(s) = 0 THEN s
       ELSE BeforePlus(IF Len(tokens0) >= 2 /\ Len(tokens0[1]) = 2
                          /\ IsUpper(tokens0[1][1]) /\ IsUpper(tokens0[1][2])
                       THEN Strip(Slice(s, 3, Len(s))) ELSE s)

\* App._clean_scanned_code(raw)
clean_scanned_code(raw) ==
    LET s == Strip(raw)
        tokens0 == Split(s)
        tokens == IF Len(tokens0) >= 2 /\ Len(tokens0[1]) = 2
                     /\ IsUpper(tokens0[1][1]) /\ IsUpper(tokens0[1][2])
                  THEN Tail(tokens0) ELSE tokens0
        candidate == IF Len(tokens) >= 2 /\ IsDigitStr(tokens[Len(tokens)])
                        /\ IsDigitStr(tokens[Len(tokens) - 1])
                     THEN tokens[Len(tokens)] ELSE tokens[1]
    IN IF Len(s) = 0 THEN s ELSE BeforePlus(candidate)

(***************************************************************************)
(* Mappings and the mapping store's lookup                                 *)
(***************************************************************************)
\* Mapping: a record [pattern, size_gb, speed_mts, mem_type, manufacturer,
\* module_class, ecc, regex]; every field but pattern and regex is Optional
Mapping(pattern, size_gb, speed_mts, mem_type, manufacturer, module_class, ecc, regex) ==
    [pattern |-> pattern, size_gb |-> size_gb, speed_mts |-> speed_mts, mem_type |-> mem_type,
     manufacturer |-> manufacturer, module_class |-> module_class, ecc |-> ecc, regex |-> regex]

\* The patterns of the model are regular expressions over literal characters
\* (word characters and "-"), the wildcard "." and groups "(" ... ")".
\* re.compile raises re.error exactly when the parentheses do not balance.
RECURSIVE ParenDepthOk(_, _)
ParenDepthOk(p, depth) ==
    IF Len(p) = 0 THEN depth = 0
    ELSE IF Head(p) = "(" THEN ParenDepthOk(Tail(p), depth + 1)
    ELSE IF Head(p) = ")" THEN depth > 0 /\ ParenDepthOk(Tail(p), depth - 1)
    ELSE ParenDepthOk(Tail(p), depth)

ReCompiles(p) == ParenDepthOk(p, 0)

RECURSIVE DropParens(_)
DropParens(p) ==
    IF Len(p) = 0 THEN <<>>
    ELSE (IF Head(p) \in {"(", ")"} THEN <<>> ELSE <<Head(p)>>) \o DropParens(Tail(p))

\* re.search(pattern, code) is not None, for a pattern that compiles
ReSearch(pattern, code) ==
    LET q == DropParens(pattern)
    IN \E i \in 1..(Len(code) + 1) :
          /\ i + Len(q) - 1 <= Len(code)
          /\ \A k \in 1..Len(q) : q[k] = "." \/ q[k] = code[i + k - 1]

\* matches() with a pattern that does not compile counted as a match
matchesUncompiled(m, code) ==
    IF m.regex
    THEN (IF ReCompiles(m.pattern) THEN ReSearch(m.pattern, code) ELSE TRUE)
    ELSE m.pattern = code

\* Mapping.matches(code)
matches(m, code) ==
    IF m.regex
    THEN (IF ReCompiles(m.pattern) THEN ReSearch(m.pattern, code) ELSE FALSE)
    ELSE m.pattern = code

RECURSIVE FirstMatch(_, _, _)
\* one loop of find(): the first mapping of the list with the given regex flag
\* that matches the code
FirstMatch(maps, code, regex) ==
    IF Len(maps) = 0 THEN None
    ELSE IF Head(maps).regex = regex /\ matches(Head(maps), code) THEN Some(Head(maps))
    ELSE FirstMatch(Tail(maps), code, regex)

\* MappingStore.find(code): None or Some(mapping); the exact mappings first,
\* the regex mappings after
find(maps, code) ==
    IF FirstMatch(maps, code, FALSE) # None THEN FirstMatch(maps, code, FALSE)
    ELSE FirstMatch(maps, code, TRUE)

(***************************************************************************)
(* Classification                                                          *)
(***************************************************************************)
\* all([size_gb, speed_mts, mem_type, manufacturer])
ParsedOk(size_gb, speed_mts, mem_type, manufacturer) ==
    TruthyInt(size_gb) /\ TruthyInt(speed_mts) /\ TruthyStr(mem_type) /\ TruthyName(manufacturer)

\* the mapping branch and the heuristic branch fill a field from the module
\* class only where the field itself is falsy
FillStr(own, decoded) == IF TruthyStr(decoded) /\ ~TruthyStr(own) THEN decoded ELSE own

FillInt(own, decoded) == IF TruthyInt(decoded) /\ ~TruthyInt(own) THEN decoded ELSE own

\* parse_module_class of an Optional module class
DecodeClass(module_class) ==
    IF TruthyStr(module_class) THEN parse_module_class(module_class[1]) ELSE NoClassFields

\* the fields of the ScanResult parse_barcode returns
ParseResult(size_gb, speed_mts, mem_type, manufacturer, module_class, ecc) ==
    [size_gb |-> size_gb, speed_mts |-> speed_mts, mem_type |-> mem_type,
     manufacturer |-> manufacturer, module_class |-> module_class, ecc |-> ecc,
     parsed_ok |-> ParsedOk(size_gb, speed_mts, mem_type, manufacturer)]

\* the mapping's fields, with type, speed and ECC filled from the decoded
\* module class mc where they are missing
MappingWithClass(m, mc) ==
    ParseResult(m.size_gb, FillInt(m.speed_mts, mc.speed), FillStr(m.mem_type, mc.mem_type),
                m.manufacturer, m.module_class,
                IF mc.ecc # None /\ m.ecc = None THEN mc.ecc ELSE m.ecc)

\* the mapping branch of parse_barcode
MappingRules(m) == MappingWithClass(m, DecodeClass(m.module_class))

\* the heuristic fields of the lower-cased code, with type and speed filled
\* from the decoded module class mc where the patterns found none
HeuristicWithClass(lower, module_class, mc) ==
    ParseResult(HeuristicSize(lower), FillInt(HeuristicSpeed(lower), mc.speed),
                FillStr(HeuristicType(lower), mc.mem_type),
                HeuristicManufacturer(lower), module_class,
                IF mc.ecc # None THEN mc.ecc ELSE None)

HeuristicOfClass(lower, module_class) ==
    HeuristicWithClass(lower, module_class, DecodeClass(module_class))

\* the heuristic branch of parse_barcode
HeuristicRules(code_clean) ==
    HeuristicOfClass(Lower(code_clean), extract_module_class(Lower(code_clean)))

(***************************************************************************)
(* The mapping form                                                        *)
(***************************************************************************)
\* a mapping form: the texts of the entry fields, the ECC choice and the regex box
Form(code, size, class, mfr, ecc, ddr, speed, kind, regex) ==
    [code |-> code, size |-> size, class |-> class, mfr |-> mfr, ecc |-> ecc,
     ddr |-> ddr, speed |-> speed, kind |-> kind, regex |-> regex]

\* as_int(s) of on_save_mapping, for the field texts of the model (unsigned
\* decimal numbers and texts that are no numbers)
as_int(text) == IF IsDigitStr(Strip(text)) THEN Some(ToInt(Strip(text))) ELSE None

\* " ".join(parts)
RECURSIVE JoinSpace(_)
JoinSpace(parts) ==
    IF Len(parts) = 0 THEN <<>>
    ELSE IF Len(parts) = 1 THEN parts[1]
    ELSE parts[1] \o <<" ">> \o JoinSpace(Tail(parts))

\* the texts on_save_mapping reads from the form
FormClass(form) ==
    IF Len(Upper(Strip(form.class))) > 0 THEN Some(Upper(Strip(form.class))) ELSE None

FormType(form) ==
    IF Len(Upper(Strip(form.ddr))) > 0 THEN Some(Upper(Strip(form.ddr))) ELSE None

FormSpeed(form) == IF TruthyInt(as_int(form.speed)) THEN as_int(form.speed) ELSE None

FormEcc(form) ==
    IF form.ecc = "Yes" THEN Some(TRUE) ELSE IF form.ecc = "No" THEN Some(FALSE) ELSE None

FormManufacturer(form) == IF form.mfr # "" THEN Some(form.mfr) ELSE None

\* the module class is decoded only when the manual type or speed is missing
FormDecode(class0, type0, speed0) ==
    IF (type0 = None \/ speed0 = None) /\ TruthyStr(class0)
    THEN parse_module_class(class0[1]) ELSE NoClassFields

\* the parts of the fallback class text: type, speed and kind
FormParts(mem_type, speed_mts, manual_kind) ==
    (IF TruthyStr(mem_type) THEN <<mem_type[1]>> ELSE <<>>)
        \o (IF TruthyInt(speed_mts) THEN <<IntToStr(speed_mts[1])>> ELSE <<>>)
        \o (IF Len(manual_kind) > 0 THEN <<manual_kind>> ELSE <<>>)

\* the module class stored when the form gives none: the synthesised class,
\* else the joined parts
FormModuleClass(class0, mem_type, speed_mts, manual_kind) ==
    IF ~TruthyStr(class0) /\ (TruthyStr(mem_type) \/ TruthyInt(speed_mts))
    THEN (IF TruthyStr(synth_module_class(mem_type, speed_mts))
          THEN synth_module_class(mem_type, speed_mts)
          ELSE IF Len(FormParts(mem_type, speed_mts, manual_kind)) > 0
               THEN Some(JoinSpace(FormParts(mem_type, speed_mts, manual_kind)))
               ELSE class0)
    ELSE class0

FormFields(form, barcode_key, class0, mem_type, speed_mts, ecc) ==
    Mapping(barcode_key, as_int(form.size), speed_mts, mem_type, FormManufacturer(form),
            FormModuleClass(class0, mem_type, speed_mts, Strip(form.kind)), ecc, form.regex)

\* manual type, speed and ECC win; the decoded class mc fills what is missing
FormMerged(form, barcode_key, class0, type0, speed0, ecc0, mc) ==
    FormFields(form, barcode_key, class0,
               IF type0 = None /\ TruthyStr(mc.mem_type) THEN mc.mem_type ELSE type0,
               IF speed0 = None /\ TruthyInt(mc.speed) THEN mc.speed ELSE speed0,
               IF ecc0 = None /\ mc.ecc # None THEN mc.ecc ELSE ecc0)

FormDecoded(form, barcode_key, class0, type0, speed0) ==
    FormMerged(form, barcode_key, class0, type0, speed0, FormEcc(form),
               FormDecode(class0, type0, speed0))

\* the Mapping on_save_mapping builds from the form, for the key barcode_key
FormMapping(form, barcode_key) ==
    FormDecoded(form, barcode_key, FormClass(form), FormType(form), FormSpeed(form))

(***************************************************************************)
(* Bounds and inputs of the model                                          *)
(***************************************************************************)
\* on_save_mapping is taken while fewer mappings than this are stored
MaxMappings == 2

\* a scan is recorded while fewer scans than this are held
MaxResults == 2

\* a scan is recorded while the id counter is below this
MaxSeq == 2

Str_M391 == <<"M", "3", "9", "1">>

Str_Heur8 == <<"8", "g", "b", "-", "p", "c", "3", "-", "1", "2", "8", "0", "0", "e", "-", "s", "a", "m", "s", "u", "n", "g">>

Str_PC3_12800 == <<"p", "c", "3", "-", "1", "2", "8", "0", "0">>

Str_PlusABC == <<"+", "A", "B", "C">>

\* the raw texts the scanner delivers: a part number no rule recognises, a
\* label the heuristics classify completely, sent behind a country code and
\* with a "+" suffix, and a text whose canonical key is empty
ScanInputs ==
    { Str_M391,
      <<"K", "R", " ">> \o Str_Heur8 \o <<"+", "X", "9">>,
      Str_PlusABC }

\* the forms the user submits: a complete mapping whose type and speed come
\* from the module class, a mapping that leaves its key incomplete, and a
\* complete mapping with manual type and speed for the empty key
FormInputs ==
    { Form(Str_M391, <<"8">>, Str_PC3_12800, "Samsung", "", <<>>, <<>>, <<>>, FALSE),
      Form(Str_M391, <<"8">>, <<>>, "", "", <<>>, <<>>, <<>>, FALSE),
      Form(Str_PlusABC, <<"4">>, <<>>, "Micron", "No", <<"D", "D", "R", "4">>, <<"2", "4", "0", "0">>, <<>>, FALSE) }

Str_Heur0 == <<"0", "g", "b", "-", "d", "d", "r", "3", "-", "1", "6", "0", "0", "m", "h", "z", "-", "h", "y", "n", "i", "x">>

Str_DDR3 == <<"D", "D", "R", "3">>

\* the codes passed to the classifier calls: a label the heuristics classify
\* completely, a label whose size reads 0, and a part number no rule recognises
ParseCodes == {Str_Heur8, Str_Heur0, Str_M391}

\* the patterns of the stored mappings: a whole label, a part of it, and a
\* text that is no regular expression
StoredPatterns == {Str_Heur8, <<"8", "g", "b">>, <<"(">>}

\* the mappings user_mappings.json may hold: for each pattern, exact or regex,
\* a record whose type and speed are left to its module class, a record with
\* every field and a size of 0, a record with every field and no module class,
\* a record with no field at all, and a record with a module class and a
\* stored speed of 0
StoredMappings ==
    UNION { { Mapping(pat, Some(8), None, None, Some("Samsung"),
                      Some(<<"P", "C", "4", "-", "1", "9", "2", "0", "0", "E">>), None, rx),
              Mapping(pat, Some(0), Some(1600), Some(Str_DDR3), Some("Samsung"),
                      Some(Upper(Str_PC3_12800)), Some(FALSE), rx),
              Mapping(pat, Some(16), Some(1333), Some(Str_DDR3), Some("Kingston"), None, None, rx),
              Mapping(pat, None, None, None, None, None, None, rx),
              Mapping(pat, Some(8), Some(0), Some(Str_DDR3), Some("Samsung"),
                      Some(Upper(Str_PC3_12800)), Some(FALSE), rx) }
            : <<pat, rx>> \in StoredPatterns \X BOOLEAN }

\* the mapping lists of the classifier calls hold at most this many mappings
MaxStored == 2

\* the ledger files the program is started over hold at most this many records
MaxFileRecords == 2

\* the barcodes of those records
FileBarcodes == {Str_Heur8, Str_M391, <<>>}

(***************************************************************************)
(* Values computed once for the inputs of the model                        *)
(***************************************************************************)
\* _clean_scanned_code(raw.strip()), as on_scan_submit and on_save_mapping call
\* it, for every raw text the model enters in the scan field or in a form
KeyOfRaw ==
    [raw \in ScanInputs \cup {form.code : form \in FormInputs} |-> clean_scanned_code(Strip(raw))]

\* the Mapping on_save_mapping builds from every form of the model
MappingOfForm == [form \in FormInputs |-> FormMapping(form, KeyOfRaw[form.code])]

\* the heuristic branch of parse_barcode, for the codes the model classifies:
\* its canonical keys, the codes of the classifier calls and the barcodes of
\* the ledger files
HeuristicOfCode ==
    [code \in Range(KeyOfRaw) \cup ParseCodes \cup {Strip(b) : b \in FileBarcodes} |->
        HeuristicRules(code)]

\* the mapping branch of parse_barcode, for the mappings the model stores:
\* those its forms build and those of its files
ResultOfMapping == [m \in Range(MappingOfForm) \cup StoredMappings |-> MappingRules(m)]

\* parse_barcode falling back to the heuristics when the mapping found is incomplete
ParseFoundOrHeuristic(m, code_clean) ==
    IF m # None /\ ResultOfMapping[m[1]].parsed_ok THEN ResultOfMapping[m[1]]
    ELSE HeuristicOfCode[code_clean]

\* parse_barcode once find() has answered: the mapping's fields, else the heuristics
ParseFound(m, code_clean) ==
    IF m # None THEN ResultOfMapping[m[1]] ELSE HeuristicOfCode[code_clean]

\* parse_barcode(code, store)
parse_barcode(code, maps) == ParseFound(find(maps, Strip(code)), Strip(code))

(***************************************************************************)
(* State                                                                   *)
(***************************************************************************)
VARIABLES
    mappings,          \* MappingStore.mappings: the ordered list of Mapping records
    store_versions,    \* MappingStore.versions: canonical key -> version
    barcode_versions,  \* App.barcode_versions: canonical key -> permanent version
    variant_counts,    \* App.variant_counts: canonical key -> number of scans
    variant_meta,      \* App.variant_meta: canonical key -> last classification
    results_data,      \* App.results_data: the list of ScanResult records
    result_seq,        \* App.result_seq: the last scan id issued
    latest_item_id,    \* App.latest_item_id: Optional id of the newest scan
    mappings_file,     \* user_mappings.json: [shape, mappings, versions]
    results_file,      \* scan_results.json: [shape, records]
    call               \* the classifier call examined last: its code and its result

vars == <<mappings, store_versions, barcode_versions, variant_counts, variant_meta,
          results_data, result_seq, latest_item_id, mappings_file, results_file, call>>

\* the empty dict
EmptyDict == [k \in {} |-> 0]

\* d[k] = v
Put(d, k, v) == [x \in DOMAIN d \cup {k} |-> IF x = k THEN v ELSE d[x]]

\* d.get(k, 0)
Get0(d, k) == IF k \in DOMAIN d THEN d[k] ELSE 0

\* the least version of the table instead of the greatest
LeastVersion(d) == IF DOMAIN d = {} THEN 0 ELSE CHOOSE v \in Range(d) : \A w \in Range(d) : v <= w

\* max(d.values()) if d else 0
MaxVersion(d) == IF DOMAIN d = {} THEN 0 ELSE CHOOSE v \in Range(d) : \A w \in Range(d) : w <= v

\* ScanResult
ScanResult(id, barcode, size_gb, speed_mts, mem_type, module_class, ecc, manufacturer, version) ==
    [id |-> id, barcode |-> barcode, size_gb |-> size_gb, speed_mts |-> speed_mts,
     mem_type |-> mem_type, module_class |-> module_class, ecc |-> ecc,
     manufacturer |-> manufacturer, version |-> version]

\* the tuple kept in variant_meta for a scan
MetaOf(r) == <<r.size_gb, r.speed_mts, r.mem_type, r.module_class, r.ecc, r.manufacturer>>

(***************************************************************************)
(* The two persisted files                                                 *)
(***************************************************************************)
\* MappingStore.save(): the whole store, written in the object shape
SavedStore(maps, versions) == [shape |-> "object", mappings |-> maps, versions |-> versions]

\* user_mappings.json before it was ever written
NoMappingsFile == [shape |-> "missing", mappings |-> <<>>, versions |-> EmptyDict]

\* load() that reads the mappings and drops the persisted version table
LoadStoreWithoutVersions(file) ==
    IF file.shape \in {"object", "array"} THEN [mappings |-> file.mappings, versions |-> EmptyDict]
    ELSE [mappings |-> <<>>, versions |-> EmptyDict]

\* MappingStore.load(): [mappings, versions] read from the file.  A missing or
\* unparsable file and a file holding neither a list nor an object give the
\* empty store; the legacy list shape gives its mappings and no versions.
LoadStore(file) ==
    IF file.shape = "object" THEN [mappings |-> file.mappings, versions |-> file.versions]
    ELSE IF file.shape = "array" THEN [mappings |-> file.mappings, versions |-> EmptyDict]
    ELSE [mappings |-> <<>>, versions |-> EmptyDict]

\* the records _save_results_file writes: id, barcode and version of every scan
LedgerRecords(results) ==
    [i \in 1..Len(results) |->
        [id |-> Some(results[i].id), barcode |-> results[i].barcode, version |-> results[i].version]]

\* App._save_results_file()
SavedResults(results) == [shape |-> "array", records |-> LedgerRecords(results)]

\* scan_results.json before it was ever written
NoResultsFile == [shape |-> "missing", records |-> <<>>]

\* the ScanResult _load_results_file builds from a record of the file: a record
\* without an id gets next_id, and the fields are those of the fresh parse p
LoadedRecord(obj, next_id, p) ==
    ScanResult(IF obj.id # None THEN obj.id[1] ELSE next_id, Strip(obj.barcode),
               IF TruthyInt(p.size_gb) THEN p.size_gb[1] ELSE 0,
               IF TruthyInt(p.speed_mts) THEN p.speed_mts[1] ELSE 0,
               IF TruthyStr(p.mem_type) THEN p.mem_type[1] ELSE <<>>,
               p.module_class, p.ecc,
               IF TruthyName(p.manufacturer) THEN p.manufacturer[1] ELSE "",
               obj.version)

RECURSIVE LoadRecords(_, _, _)
\* the loop of _load_results_file over the file's records, out being the list
\* built so far: a record with an empty barcode is skipped, a record without
\* an id gets len(out) + 1, and the classification is parsed afresh
LoadRecords(records, maps, out) ==
    IF Len(records) = 0 THEN out
    ELSE IF Len(Strip(Head(records).barcode)) = 0 THEN LoadRecords(Tail(records), maps, out)
    ELSE LoadRecords(Tail(records), maps,
                     Append(out, LoadedRecord(Head(records), Len(out) + 1,
                                              parse_barcode(Strip(Head(records).barcode), maps))))

\* App._load_results_file()
load_results_file(file, maps) ==
    IF file.shape = "array" THEN LoadRecords(file.records, maps, <<>>) ELSE <<>>

(***************************************************************************)
(* Rebuild                                                                 *)
(***************************************************************************)
\* next_ver before the loop of _rebuild_everything_from_results
RebuildFirstVersion(versions) == MaxVersion(versions) + 1

RECURSIVE RebuildVersionsRenumber(_, _, _)
\* a rebuild loop that gives every scan's barcode the next version, registered or not
RebuildVersionsRenumber(results, versions, next_ver) ==
    IF Len(results) = 0 THEN versions
    ELSE RebuildVersionsRenumber(Tail(results), Put(versions, Head(results).barcode, next_ver),
                                 next_ver + 1)

RECURSIVE RebuildVersions(_, _, _)
\* the version table after the loop over results: a barcode met for the first
\* time and not yet in the table takes next_ver, which then moves on by one
RebuildVersions(results, versions, next_ver) ==
    IF Len(results) = 0 THEN versions
    ELSE LET b == Head(results).barcode
         IN IF b \in DOMAIN versions THEN RebuildVersions(Tail(results), versions, next_ver)
            ELSE RebuildVersions(Tail(results), Put(versions, b, next_ver), next_ver + 1)

\* counts that note every barcode of the results once, however often it occurs
RebuildCountsOnce(results) == [b \in {results[i].barcode : i \in DOMAIN results} |-> 1]

\* the counts after the loop over results
RebuildCounts(results) ==
    [b \in {results[i].barcode : i \in DOMAIN results} |->
        Cardinality({i \in DOMAIN results : results[i].barcode = b})]

\* the meta after the loop over results: that of the last scan of each barcode
RebuildMeta(results) ==
    [b \in {results[i].barcode : i \in DOMAIN results} |->
        MetaOf(results[CHOOSE i \in DOMAIN results :
                          /\ results[i].barcode = b
                          /\ \A j \in DOMAIN results : results[j].barcode = b => j <= i])]

\* a rebuild that leaves the version field of the scans as it finds it
RebuildKeepingEventVersions(results, versions) ==
    [results |-> results,
     versions |-> RebuildVersions(results, versions, RebuildFirstVersion(versions)),
     counts |-> RebuildCounts(results),
     meta |-> RebuildMeta(results),
     latest |-> IF Len(results) > 0 THEN Some(results[Len(results)].id) ELSE None]

\* App._rebuild_everything_from_results() on (results_data, barcode_versions):
\* the new results, version table, counts, meta and latest id
Rebuild(results, versions) ==
    LET v2 == RebuildVersions(results, versions, RebuildFirstVersion(versions))
    IN [results |-> [i \in 1..Len(results) |-> [results[i] EXCEPT !.version = v2[results[i].barcode]]],
        versions |-> v2,
        counts |-> RebuildCounts(results),
        meta |-> RebuildMeta(results),
        latest |-> IF Len(results) > 0 THEN Some(results[Len(results)].id) ELSE None]

\* max((r.id for r in results), default=0)
MaxId(results) ==
    IF Len(results) = 0 THEN 0
    ELSE LET ids == {results[i].id : i \in DOMAIN results}
         IN CHOOSE v \in ids : \A w \in ids : w <= v

(***************************************************************************)
(* Handlers                                                                *)
(***************************************************************************)
\* add_result skipping a version number
ScanNextVersionSkipping(versions) == MaxVersion(versions) + 2

\* on_save_mapping reusing the greatest version instead of moving past it
SaveNextVersionStale(versions) == MaxVersion(versions)

\* the version add_result gives a barcode that has none
ScanNextVersion(versions) == MaxVersion(versions) + 1

\* the version on_save_mapping gives a barcode that has none
SaveNextVersion(versions) == MaxVersion(versions) + 1

\* App.add_result(barcode_key, ...) with p the classification parse_barcode
\* returned.  maps, versions, stored and file are the store's mapping list, the
\* version table, the store's copy of it and user_mappings.json at the call.
AddResult(barcode_key, p, maps, versions, stored, file) ==
    LET rid == result_seq + 1
        known == barcode_key \in DOMAIN versions
        version == IF known THEN versions[barcode_key] ELSE ScanNextVersion(versions)
        sr == ScanResult(rid, barcode_key, p.size_gb[1], p.speed_mts[1], p.mem_type[1],
                         p.module_class, p.ecc, p.manufacturer[1], version)
    IN /\ result_seq' = rid
       /\ barcode_versions' = IF known THEN versions ELSE Put(versions, barcode_key, version)
       /\ store_versions' = IF known THEN stored ELSE barcode_versions'
       /\ mappings_file' = IF known THEN file ELSE SavedStore(maps, store_versions')
       /\ variant_counts' = Put(variant_counts, barcode_key, Get0(variant_counts, barcode_key) + 1)
       /\ variant_meta' = Put(variant_meta, barcode_key, MetaOf(sr))
       /\ results_data' = Append(results_data, sr)
       /\ latest_item_id' = Some(rid)
       /\ results_file' = SavedResults(results_data')

\* room for one more scan record within the bounds of the model
CanRecord == Len(results_data) < MaxResults /\ result_seq < MaxSeq

\* on_scan_submit writing the ledger file after every scan, recorded or not
ScanParsedSaving(barcode_key, p) ==
    /\ p.parsed_ok => CanRecord
    /\ UNCHANGED call
    /\ IF p.parsed_ok
       THEN /\ AddResult(barcode_key, p, mappings, barcode_versions, store_versions, mappings_file)
            /\ UNCHANGED mappings
       ELSE /\ results_file' = SavedResults(results_data)
            /\ UNCHANGED <<mappings, store_versions, barcode_versions, variant_counts, variant_meta,
                           results_data, result_seq, latest_item_id, mappings_file>>

\* on_scan_submit once the code is classified: a complete result is recorded,
\* an incomplete one only opens the mapping form
ScanParsed(barcode_key, p) ==
    /\ p.parsed_ok => CanRecord
    /\ UNCHANGED call
    /\ IF p.parsed_ok
       THEN /\ AddResult(barcode_key, p, mappings, barcode_versions, store_versions, mappings_file)
            /\ UNCHANGED mappings
       ELSE UNCHANGED <<mappings, store_versions, barcode_versions, variant_counts, variant_meta,
                        results_data, result_seq, latest_item_id, mappings_file, results_file>>

\* App.on_scan_submit() with raw the text of the scan field
OnScanSubmit(raw) ==
    /\ Len(Strip(raw)) > 0
    /\ ScanParsed(KeyOfRaw[raw], parse_barcode(KeyOfRaw[raw], mappings))

\* the version table after on_save_mapping has registered barcode_key
SaveVersions(barcode_key) ==
    IF barcode_key \in DOMAIN barcode_versions THEN barcode_versions
    ELSE Put(barcode_versions, barcode_key, SaveNextVersion(barcode_versions))

\* the store's version table after on_save_mapping: replaced by the App's
\* table only when the key was new
SaveStored(barcode_key) ==
    IF barcode_key \in DOMAIN barcode_versions THEN store_versions
    ELSE SaveVersions(barcode_key)

\* on_save_mapping after store.add() and the version assignment: the code is
\* parsed again and recorded when the result is complete
SaveParsed(barcode_key, maps, versions, stored, p) ==
    /\ p.parsed_ok => CanRecord
    /\ mappings' = maps
    /\ UNCHANGED call
    /\ IF p.parsed_ok
       THEN AddResult(barcode_key, p, maps, versions, stored, SavedStore(maps, stored))
       ELSE /\ barcode_versions' = versions
            /\ store_versions' = stored
            /\ mappings_file' = SavedStore(maps, stored)
            /\ UNCHANGED <<variant_counts, variant_meta, results_data, result_seq,
                           latest_item_id, results_file>>

SaveMappingAs(barcode_key, maps) ==
    SaveParsed(barcode_key, maps, SaveVersions(barcode_key), SaveStored(barcode_key),
               parse_barcode(barcode_key, maps))

\* App.on_save_mapping() with form the contents of the mapping form
OnSaveMapping(form) ==
    /\ Len(Strip(form.code)) > 0
    /\ Len(mappings) < MaxMappings
    /\ SaveMappingAs(KeyOfRaw[form.code], Append(mappings, MappingOfForm[form]))

\* "del self.mappings[idx]" succeeds for -len <= idx < len, a negative idx
\* counting from the end of the list
DelIndexOk(maps, idx) == -Len(maps) <= idx /\ idx < Len(maps)

\* the list after "del self.mappings[idx]"
DelIndex(maps, idx) ==
    LET at == IF idx >= 0 THEN idx + 1 ELSE Len(maps) + idx + 1
    IN SubSeq(maps, 1, at - 1) \o SubSeq(maps, at + 1, Len(maps))

\* MappingStore.remove_index(idx), as App.on_delete_mapping calls it
RemoveIndex(idx) ==
    /\ UNCHANGED call
    /\ IF DelIndexOk(mappings, idx)
       THEN /\ mappings' = DelIndex(mappings, idx)
            /\ mappings_file' = SavedStore(mappings', store_versions)
       ELSE UNCHANGED <<mappings, mappings_file>>
    /\ UNCHANGED <<store_versions, barcode_versions, variant_counts, variant_meta,
                   results_data, result_seq, latest_item_id, results_file>>

\* [r for r in self.results_data if r.id != item_id]
WithoutId(results, item_id) == SelectSeq(results, LAMBDA r : r.id # item_id)

\* the state and the two files after a rebuild that gave rb
RebuiltAndSaved(rb) ==
    /\ results_data' = rb.results
    /\ barcode_versions' = rb.versions
    /\ store_versions' = rb.versions
    /\ variant_counts' = rb.counts
    /\ variant_meta' = rb.meta
    /\ latest_item_id' = rb.latest
    /\ mappings_file' = SavedStore(mappings, rb.versions)
    /\ results_file' = SavedResults(rb.results)
    /\ UNCHANGED <<mappings, result_seq>>

\* the rest of remove_result and remove_latest_scan once results_data is
\* filtered: the rebuild, which saves the store, and the save of the ledger
RebuildAndSave(results) == RebuiltAndSaved(Rebuild(results, barcode_versions))

\* App.remove_result(item_id, key, frame), the Remove button of a scan's card
RemoveResult(item_id) ==
    /\ \E i \in DOMAIN results_data : results_data[i].id = item_id
    /\ UNCHANGED call
    /\ RebuildAndSave(WithoutId(results_data, item_id))

\* App.remove_latest_scan()
RemoveLatestScan ==
    /\ UNCHANGED call
    /\ IF latest_item_id = None
       THEN UNCHANGED <<mappings, store_versions, barcode_versions, variant_counts, variant_meta,
                        results_data, result_seq, latest_item_id, mappings_file, results_file>>
       ELSE RebuildAndSave(WithoutId(results_data, latest_item_id[1]))

\* App.clear_results_and_counts(), confirmed in the dialog
ClearResultsAndCounts ==
    /\ UNCHANGED call
    /\ results_data' = <<>>
    /\ variant_counts' = EmptyDict
    /\ variant_meta' = EmptyDict
    /\ results_file' = SavedResults(<<>>)
    /\ latest_item_id' = None
    /\ UNCHANGED <<mappings, store_versions, barcode_versions, result_seq, mappings_file>>

\* the values of the state after construction, for the loaded store, the
\* loaded ledger and its rebuild rb
StartRebuilt(store, rfile, loaded, rb) ==
    [mappings |-> store.mappings,
     results_data |-> rb.results,
     result_seq |-> MaxId(loaded),
     barcode_versions |-> rb.versions,
     store_versions |-> rb.versions,
     variant_counts |-> rb.counts,
     variant_meta |-> rb.meta,
     latest_item_id |-> rb.latest,
     mappings_file |-> SavedStore(store.mappings, rb.versions),
     results_file |-> rfile]

\* App.__init__ after _load_results_file(): the rebuild over the store's versions
StartLoaded(store, rfile, loaded) ==
    StartRebuilt(store, rfile, loaded, Rebuild(loaded, store.versions))

\* App.__init__ over the loaded store and the ledger file rfile
StartOver(store, rfile) == StartLoaded(store, rfile, load_results_file(rfile, store.mappings))

\* main(): MappingStore(MAPPINGS_JSON) and App(root, store) over the two files
\* mfile and rfile; the values of the state after construction
StartState(mfile, rfile) == StartOver(LoadStore(mfile), rfile)

InitAs(st) ==
    /\ mappings = st.mappings
    /\ results_data = st.results_data
    /\ result_seq = st.result_seq
    /\ barcode_versions = st.barcode_versions
    /\ store_versions = st.store_versions
    /\ variant_counts = st.variant_counts
    /\ variant_meta = st.variant_meta
    /\ latest_item_id = st.latest_item_id
    /\ mappings_file = st.mappings_file
    /\ results_file = st.results_file
    /\ call = [op |-> "none"]

\* the program started over the files mfile and rfile
InitFrom(mfile, rfile) == InitAs(StartState(mfile, rfile))

RestartAs(st) ==
    /\ mappings' = st.mappings
    /\ results_data' = st.results_data
    /\ result_seq' = st.result_seq
    /\ barcode_versions' = st.barcode_versions
    /\ store_versions' = st.store_versions
    /\ variant_counts' = st.variant_counts
    /\ variant_meta' = st.variant_meta
    /\ latest_item_id' = st.latest_item_id
    /\ mappings_file' = st.mappings_file
    /\ results_file' = st.results_file

\* the program is closed and started again over the files mfile and rfile
RestartFrom(mfile, rfile) == RestartAs(StartState(mfile, rfile))

\* a restart over the two files as the program left them
Restart ==
    /\ UNCHANGED call
    /\ RestartFrom(mappings_file, results_file)

(***************************************************************************)
(* Spec: a fresh installation, the user's operations and restarts          *)
(***************************************************************************)
Init == InitFrom(NoMappingsFile, NoResultsFile)

Next ==
    \/ \E raw \in ScanInputs : OnScanSubmit(raw)
    \/ \E form \in FormInputs : OnSaveMapping(form)
    \/ \E idx \in (0 - MaxMappings - 1)..(MaxMappings + 1) : RemoveIndex(idx)
    \/ \E item_id \in 0..MaxSeq : RemoveResult(item_id)
    \/ RemoveLatestScan
    \/ ClearResultsAndCounts
    \/ Restart

Spec == Init /\ [][Next]_vars


(***************************************************************************)
(* SpecEnv: the program started over a ledger file it did not write, and   *)
(* the user's operations and restarts from there                           *)
(***************************************************************************)
\* a record of scan_results.json: the id may be missing, and a record with
\* id 1 may follow one with id 2
FileRecords ==
    [id : {None, Some(2)}, barcode : FileBarcodes, version : {2}]
        \cup {[id |-> Some(1), barcode |-> Str_M391, version |-> 2]}

\* the sequences of at most n elements of S
RECURSIVE SeqsUpTo(_, _)
SeqsUpTo(S, n) ==
    IF n = 0 THEN {<<>>}
    ELSE LET shorter == SeqsUpTo(S, n - 1)
         IN shorter \cup {Append(q, x) : q \in shorter, x \in S}

\* the contents of scan_results.json the program is started over
LedgerFiles ==
    {[shape |-> "array", records |-> recs] : recs \in SeqsUpTo(FileRecords, MaxFileRecords)}
        \cup {[shape |-> "corrupt", records |-> <<>>]}

InitEnv == \E rfile \in LedgerFiles : InitFrom(NoMappingsFile, rfile)

SpecEnv == InitEnv /\ [][Next]_vars

(***************************************************************************)
(* SpecLegacy: a fresh installation, the user's operations, and restarts   *)
(* at which user_mappings.json no longer gives the version table           *)
(***************************************************************************)
LegacyShapes == {"missing", "corrupt", "array"}

\* user_mappings.json missing, unreadable, or in the legacy shape of a plain
\* list of the mappings: MappingStore.load() then gives an empty version table
LegacyFile(shape) ==
    [shape |-> shape,
     mappings |-> IF shape = "array" THEN mappings_file.mappings ELSE <<>>,
     versions |-> EmptyDict]

\* a restart over such a mapping file and the ledger as the program left it
RestartLegacy(shape) ==
    /\ UNCHANGED call
    /\ RestartFrom(LegacyFile(shape), results_file)

NextLegacy ==
    \/ Next
    \/ \E shape \in LegacyShapes : RestartLegacy(shape)

SpecLegacy == Init /\ [][NextLegacy]_vars

(***************************************************************************)
(* SpecParse: the classifier calls on the mapping lists of a mapping file  *)
(***************************************************************************)
InitParse ==
    \E maps \in SeqsUpTo(StoredMappings, MaxStored) :
        InitFrom(SavedStore(maps, EmptyDict), NoResultsFile)

\* MappingStore.find(code) on the stored list
FindCall(code) ==
    /\ call' = [op |-> "find", code |-> code, out |-> find(mappings, code)]
    /\ UNCHANGED <<mappings, store_versions, barcode_versions, variant_counts, variant_meta,
                   results_data, result_seq, latest_item_id, mappings_file, results_file>>

\* parse_barcode(code, store) on the stored list
ParseCall(code) ==
    /\ call' = [op |-> "parse", code |-> code, out |-> parse_barcode(code, mappings)]
    /\ UNCHANGED <<mappings, store_versions, barcode_versions, variant_counts, variant_meta,
                   results_data, result_seq, latest_item_id, mappings_file, results_file>>

NextParse ==
    \/ \E code \in ParseCodes : FindCall(code)
    \/ \E code \in ParseCodes : ParseCall(code)

SpecParse == InitParse /\ [][NextParse]_vars


(***************************************************************************)
(* SpecPure: calls of the module-class codec, of the canonicalisation and  *)
(* of MappingStore.load(), one call in each behaviour                      *)
(***************************************************************************)
\* a raw text of the scanner holds at most this many tokens
MaxTokens == 3

\* the tokens of the raw texts: a country code, two numbers, a part number
\* with a "+" suffix, two lower-case letters, a token that starts with "+"
\* and three upper-case letters
CleanTokens ==
    { <<"C", "N">>, <<"1", "0", "6">>, <<"1", "2", "3">>, <<"M", "3", "+", "A", "B">>,
      <<"c", "n">>, <<"+", "X">>, <<"K", "R", "X">> }

RECURSIVE JoinWith(_, _)
\* the tokens written one after the other with gap between them
JoinWith(tokens, gap) ==
    IF Len(tokens) = 0 THEN <<>>
    ELSE IF Len(tokens) = 1 THEN tokens[1]
    ELSE tokens[1] \o gap \o JoinWith(Tail(tokens), gap)

\* synth_module_class(mem_type, speed_mts), and parse_module_class of its result
SynthCall(mem_type, speed_mts) ==
    /\ call.op = "none"
    /\ call' = [op |-> "synth", mem_type |-> mem_type, speed_mts |-> speed_mts,
                out |-> synth_module_class(mem_type, speed_mts),
                decoded |-> DecodeClass(synth_module_class(mem_type, speed_mts))]
    /\ UNCHANGED <<mappings, store_versions, barcode_versions, variant_counts, variant_meta,
                   results_data, result_seq, latest_item_id, mappings_file, results_file>>

\* _clean_scanned_code(raw) for the raw text that holds the tokens, with pad
\* before and after them and a space and pad between them
CleanCall(tokens, pad) ==
    /\ call.op = "none"
    /\ call' = [op |-> "clean", tokens |-> tokens,
                raw |-> pad \o JoinWith(tokens, <<" ">> \o pad) \o pad,
                out |-> clean_scanned_code(pad \o JoinWith(tokens, <<" ">> \o pad) \o pad)]
    /\ UNCHANGED <<mappings, store_versions, barcode_versions, variant_counts, variant_meta,
                   results_data, result_seq, latest_item_id, mappings_file, results_file>>

\* parse_module_class(text) for the text "PC", gen, sep, rating and suffix
DecodeCall(gen, sep, rating, suffix) ==
    /\ call.op = "none"
    /\ call' = [op |-> "decode", gen |-> gen, rating |-> rating, suffix |-> suffix,
                out |-> parse_module_class(<<"P", "C", gen>> \o sep \o rating \o suffix)]
    /\ UNCHANGED <<mappings, store_versions, barcode_versions, variant_counts, variant_meta,
                   results_data, result_seq, latest_item_id, mappings_file, results_file>>

\* the contents of user_mappings.json load() is called on: missing, not
\* parsable, a scalar, and a list or an object of up to MaxFileRecords
\* records.  A record is complete ("full"), lacks required fields, carries a
\* field Mapping does not have, or is no object at all; the versions of an
\* object are integers, hold a text that is no number, or are no object.
\* The fields of a full record are all eight, or the five the first files
\* held, or those and a module class and an ECC flag.
RawStoreFiles ==
    { [shape |-> s, records |-> <<>>, versions_kind |-> "ints", versions |-> EmptyDict]
        : s \in {"missing", "corrupt", "scalar"} }
    \cup [shape : {"array", "object"},
          records : SeqsUpTo([kind : {"full", "missing_field", "unknown_field", "not_record"},
                              fields : { Mapping(Str_M391, Some(8), None, None, None, None, None, FALSE),
                                         [pattern |-> <<"8", "g", "b">>, size_gb |-> Some(16),
                                          speed_mts |-> Some(1333), mem_type |-> Some(Str_DDR3),
                                          manufacturer |-> Some("Kingston")],
                                         [pattern |-> Str_M391, size_gb |-> Some(8),
                                          speed_mts |-> None, mem_type |-> None,
                                          manufacturer |-> Some("Samsung"),
                                          module_class |-> Some(Upper(Str_PC3_12800)),
                                          ecc |-> Some(TRUE)] }],
                             MaxFileRecords),
          versions_kind : {"ints", "not_int", "not_object"},
          versions : {Put(EmptyDict, Str_M391, 1)}]

\* a load that takes a record without a regex flag for a regular expression
LoadedMappingAsRegex(m) ==
    Mapping(m.pattern, m.size_gb, m.speed_mts, m.mem_type, m.manufacturer,
            IF "module_class" \in DOMAIN m THEN m.module_class ELSE None,
            IF "ecc" \in DOMAIN m THEN m.ecc ELSE None,
            IF "regex" \in DOMAIN m THEN m.regex ELSE TRUE)

\* the Mapping load() builds from a record m of the file: setdefault gives a
\* missing module_class and a missing ecc None and a missing regex False
LoadedMapping(m) ==
    Mapping(m.pattern, m.size_gb, m.speed_mts, m.mem_type, m.manufacturer,
            IF "module_class" \in DOMAIN m THEN m.module_class ELSE None,
            IF "ecc" \in DOMAIN m THEN m.ecc ELSE None,
            IF "regex" \in DOMAIN m THEN m.regex ELSE FALSE)

\* load() raises: nothing catches the TypeError of dict(m) or Mapping(**m)
\* for a record that is no object, lacks a required field or carries an
\* unknown one, nor the error of versions_src.items() or int(v) for versions
\* that are no object or no integers (read only in the object shape)
LoadRaises(file) ==
    /\ file.shape \in {"array", "object"}
    /\ \/ \E i \in DOMAIN file.records : file.records[i].kind # "full"
       \/ file.shape = "object" /\ file.versions_kind # "ints"

\* MappingStore(path) over the file: whether load() raised, and otherwise the
\* store it left and user_mappings.json as App.__init__ leaves it when it is
\* started with that store over a ledger file of one scan
LoadCall(file) ==
    /\ call.op = "none"
    /\ call' = [op |-> "load", file |-> file, raised |-> LoadRaises(file),
                store |-> IF LoadRaises(file) THEN None
                          ELSE Some(LoadStore([shape |-> file.shape,
                                               mappings |-> [i \in DOMAIN file.records |->
                                                                LoadedMapping(file.records[i].fields)],
                                               versions |-> file.versions])),
                started |-> IF LoadRaises(file) THEN None
                            ELSE Some(StartOver(LoadStore([shape |-> file.shape,
                                                           mappings |-> [i \in DOMAIN file.records |->
                                                                            LoadedMapping(file.records[i].fields)],
                                                           versions |-> file.versions]),
                                                SavedResults(<<ScanResult(1, Str_Heur8, 8, 1600, Str_DDR3, None,
                                                                          None, "Samsung", 1)>>)).mappings_file)]
    /\ UNCHANGED <<mappings, store_versions, barcode_versions, variant_counts, variant_meta,
                   results_data, result_seq, latest_item_id, mappings_file, results_file>>

\* synth_module_class is called with the four DDR generations, a type written
\* with a space, a type that is no DDR type, an empty type and none, and with
\* every speed of COMMON_MB_TO_MTS, speeds the table does not hold, 0 and none;
\* _clean_scanned_code with the tokens apart by one space, by two, and by a
\* space and a tab; parse_module_class with ratings of three to six digits in
\* and out of the table, below and above 4000, and with suffixes with and
\* without E or Q
NextPure ==
    \/ \E mem_type \in {None, Some(<<>>), Some(<<"S", "D", "R", "A", "M">>),
                         Some(<<"d", "d", "r", " ", "3">>)}
                            \cup {Some(<<"D", "D", "R", g>>) : g \in {"2", "3", "4", "5"}},
          speed_mts \in {None, Some(0), Some(1000), Some(4800), Some(5600), Some(6400)}
                            \cup {Some(COMMON_MB_TO_MTS[i][2]) : i \in DOMAIN COMMON_MB_TO_MTS} :
          SynthCall(mem_type, speed_mts)
    \/ \E tokens \in SeqsUpTo(CleanTokens, MaxTokens), pad \in {<<>>, <<" ">>, <<"\t", " ">>} :
          CleanCall(tokens, pad)
    \/ \E file \in RawStoreFiles : LoadCall(file)
    \/ \E gen \in {"3", "4", "9"}, sep \in {<<"-">>, <<" ">>},
          rating \in { <<"0", "0", "0">>, <<"8", "0", "0">>, <<"9", "9", "9">>,
                       <<"1", "0", "6", "6">>, <<"3", "9", "9", "9">>, <<"4", "0", "0", "0">>,
                       <<"4", "0", "0", "3">>, <<"4", "0", "0", "4">>, <<"4", "0", "0", "5">>,
                       <<"4", "0", "1", "2">>, <<"6", "4", "0", "0">>, <<"8", "5", "3", "3">>,
                       <<"1", "2", "8", "0", "0">>, <<"1", "2", "8", "0", "1">>,
                       <<"3", "2", "0", "0", "0">>, <<"1", "0", "0", "0", "0", "0">>,
                       <<"9", "9", "9", "9", "9", "9">> },
          suffix \in {<<>>, <<"E">>, <<"R">>, <<"U">>, <<"q">>, <<"R", "E">>} :
          DecodeCall(gen, sep, rating, suffix)

SpecPure == Init /\ [][NextPure]_vars


(***************************************************************************)
(* SpecCrash: a fresh installation, the user's operations, and the program *)
(* stopped between two file writes of an operation and started again       *)
(***************************************************************************)
\* the ledger is written before the store instead of after it: the program
\* stops with scan_results.json written and user_mappings.json as it was
CrashLedgerFirst(mfile, rfile, versions) ==
    /\ call.op = "none"
    /\ call' = [op |-> "crashed", versions |-> versions]
    /\ results_file' = rfile
    /\ UNCHANGED <<mappings, store_versions, barcode_versions, variant_counts, variant_meta,
                   results_data, result_seq, latest_item_id, mappings_file>>

\* the program stops after store.save() has written mfile and before the
\* operation's next write, which would make rfile of scan_results.json;
\* versions is barcode_versions at that point.  The values in memory are lost.
Crash(mfile, rfile, versions) ==
    /\ call.op = "none"
    /\ call' = [op |-> "crashed", versions |-> versions]
    /\ mappings_file' = mfile
    /\ UNCHANGED <<mappings, store_versions, barcode_versions, variant_counts, variant_meta,
                   results_data, result_seq, latest_item_id, results_file>>

\* the crash points: in add_result between the store's save for a new key and
\* the ledger's save; in on_save_mapping after the save of store.add() and
\* after the save that registers a new key; in remove_result between the
\* rebuild's save of the store and the ledger's save.  A stopped program is
\* started again over the two files as they are.
NextCrash ==
    \/ call.op = "none" /\ Next
    \/ \E raw \in ScanInputs :
          /\ Len(Strip(raw)) > 0
          /\ parse_barcode(KeyOfRaw[raw], mappings).parsed_ok
          /\ CanRecord
          /\ KeyOfRaw[raw] \notin DOMAIN barcode_versions
          /\ Crash(SavedStore(mappings, Put(barcode_versions, KeyOfRaw[raw],
                                            ScanNextVersion(barcode_versions))),
                   [shape |-> "array",
                    records |-> Append(LedgerRecords(results_data),
                                       [id |-> Some(result_seq + 1), barcode |-> KeyOfRaw[raw],
                                        version |-> ScanNextVersion(barcode_versions)])],
                   Put(barcode_versions, KeyOfRaw[raw], ScanNextVersion(barcode_versions)))
    \/ \E form \in FormInputs :
          /\ Len(Strip(form.code)) > 0
          /\ Len(mappings) < MaxMappings
          /\ Crash(SavedStore(Append(mappings, MappingOfForm[form]), store_versions),
                   results_file, barcode_versions)
    \/ \E form \in FormInputs :
          /\ Len(Strip(form.code)) > 0
          /\ Len(mappings) < MaxMappings
          /\ KeyOfRaw[form.code] \notin DOMAIN barcode_versions
          /\ Crash(SavedStore(Append(mappings, MappingOfForm[form]), SaveStored(KeyOfRaw[form.code])),
                   results_file, SaveVersions(KeyOfRaw[form.code]))
    \/ \E item_id \in 0..MaxSeq :
          /\ \E i \in DOMAIN results_data : results_data[i].id = item_id
          /\ Crash(SavedStore(mappings, Rebuild(WithoutId(results_data, item_id), barcode_versions).versions),
                   SavedResults(Rebuild(WithoutId(results_data, item_id), barcode_versions).results),
                   Rebuild(WithoutId(results_data, item_id), barcode_versions).versions)
    \/ /\ call.op = "crashed"
       /\ call' = [op |-> "none"]
       /\ RestartFrom(mappings_file, results_file)

SpecCrash == Init /\ [][NextCrash]_vars

(***************************************************************************)
(* The version registry (Spec)                                             *)
(***************************************************************************)
\* every key of the table before keeps its entry in the table after
KeepsVersions(before, after) ==
    \A k \in DOMAIN before : k \in DOMAIN after /\ after[k] = before[k]

\* C1: a key that has a version stays registered with that version across
\* every step of the program: a scan, a mapping save, a mapping deletion, the
\* deletion of a scan event, clear-all, and a restart from the two files.
C1_VersionsImmutable == [][KeepsVersions(barcode_versions, barcode_versions')]_vars

\* two keys were issued versions 1 and 2; since then the mapping was deleted,
\* the history cleared and the program restarted (result_seq is back at 0)
C1_RegistrySurvives ==
    /\ DOMAIN barcode_versions = {Str_Heur8, Str_M391}
    /\ barcode_versions[Str_Heur8] = 1
    /\ barcode_versions[Str_M391] = 2
    /\ mappings = <<>>
    /\ results_data = <<>>
    /\ result_seq = 0

\* a step registers at most one key, gives it the greatest version so far
\* plus one, and moves the greatest version by exactly the keys it registers
IssuesNext(before, after) ==
    /\ Cardinality(DOMAIN after \ DOMAIN before) <= 1
    /\ \A k \in DOMAIN after \ DOMAIN before : after[k] = MaxVersion(before) + 1
    /\ MaxVersion(after) = MaxVersion(before) + Cardinality(DOMAIN after \ DOMAIN before)

\* C2: never-seen keys classified one after the other take the versions v,
\* v+1, ..., v being one more than the greatest version before the first (1 for
\* an empty registry): every step that registers a key gives it the greatest
\* version plus one, and no other step moves the greatest version.
C2_ConsecutiveVersions == [][IssuesNext(barcode_versions, barcode_versions')]_vars

\* three keys classified completely in turn hold the versions 1, 2 and 3, with
\* a clear-all and a restart between the second and the third
C2_ThreeInARow ==
    /\ DOMAIN barcode_versions = {Str_Heur8, Str_M391, <<>>}
    /\ barcode_versions[Str_Heur8] = 1
    /\ barcode_versions[Str_M391] = 2
    /\ barcode_versions[<<>>] = 3
    /\ Len(results_data) = 1
    /\ results_data[1].barcode = <<>>
    /\ results_data[1].version = 3

Injective(d) == \A a, b \in DOMAIN d : d[a] = d[b] => a = b

\* every key registered by the step has a version above all those of the table before
NewAboveAll(before, after) ==
    \A k \in DOMAIN after \ DOMAIN before : \A j \in DOMAIN before : after[k] > before[j]

\* C3: no version is issued to two keys: the table stays injective, and every
\* newly issued version is greater than every version issued before, also when
\* the scan history of the earlier keys was deleted or cleared.
C3_VersionsNeverReused ==
    /\ []Injective(barcode_versions)
    /\ [][NewAboveAll(barcode_versions, barcode_versions')]_vars

\* the first key has no scan left (its history was cleared before a restart,
\* the next scan being numbered 1 again) and the key registered after it
\* holds the higher version
C3_IssuedAfterClear ==
    /\ DOMAIN barcode_versions = {Str_Heur8, Str_M391}
    /\ barcode_versions[Str_Heur8] = 1
    /\ barcode_versions[Str_M391] = 2
    /\ Str_Heur8 \notin DOMAIN variant_counts
    /\ Len(results_data) = 1
    /\ results_data[1].barcode = Str_M391
    /\ results_data[1].id = 1
    /\ results_data[1].version = 2

\* the step saved a mapping: its key is registered after the step, with the
\* greatest version plus one when it had none and with its own version otherwise
SaveRegistersOnce(maps_before, maps_after, before, after) ==
    (Len(maps_after) = Len(maps_before) + 1) =>
        /\ maps_after[Len(maps_after)].pattern \in DOMAIN after
        /\ after = IF maps_after[Len(maps_after)].pattern \in DOMAIN before THEN before
                   ELSE Put(before, maps_after[Len(maps_after)].pattern, MaxVersion(before) + 1)

\* the step recorded a scan of a registered key: the scan carries the key's
\* version and the table is as before
ScanOfRegisteredKey(results_before, results_after, before, after) ==
    (/\ Len(results_after) = Len(results_before) + 1
     /\ results_after[Len(results_after)].barcode \in DOMAIN before) =>
        /\ after = before
        /\ results_after[Len(results_after)].version = before[results_after[Len(results_after)].barcode]

\* C4: a key is registered exactly once: on_save_mapping for a key without a
\* version gives it the greatest version plus one (1 in an empty registry)
\* whether or not the key then classifies as complete, and a later scan or
\* mapping save of that key issues no version.
C4_RegisteredOnce ==
    [][/\ SaveRegistersOnce(mappings, mappings', barcode_versions, barcode_versions')
       /\ ScanOfRegisteredKey(results_data, results_data', barcode_versions, barcode_versions')]_vars

\* the mapping saved for M391 leaves the key incomplete (no speed, no type):
\* the key holds version 2 and has never been recorded
C4_IncompleteSaveRegisters ==
    /\ DOMAIN barcode_versions = {Str_Heur8, Str_M391}
    /\ barcode_versions[Str_Heur8] = 1
    /\ barcode_versions[Str_M391] = 2
    /\ Len(mappings) = 1
    /\ mappings[1].pattern = Str_M391
    /\ mappings[1].speed_mts = None
    /\ Len(results_data) = 1
    /\ results_data[1].barcode = Str_Heur8
    /\ result_seq = 1

(***************************************************************************)
(* Rebuilding from the ledger (SpecLegacy, SpecEnv)                        *)
(***************************************************************************)
\* every key of the ledger after the step that had a version before has the same
LedgerKeepsVersions(results_after, before, after) ==
    \A i \in DOMAIN results_after :
        results_after[i].barcode \in DOMAIN before =>
            after[results_after[i].barcode] = before[results_after[i].barcode]

\* C5: rebuilding the registry from the persisted ledger when the version
\* table is empty (mapping file missing, unreadable or a legacy list) gives
\* every key of the ledger the version it held before: no step, such a restart
\* included, changes the version of a key of the ledger.
C5_RebuildRestoresVersions ==
    [][LedgerKeepsVersions(results_data', barcode_versions, barcode_versions')]_vars

SameRebuild(rb1, rb2) ==
    /\ rb2.versions = rb1.versions
    /\ rb2.counts = rb1.counts
    /\ rb2.results = rb1.results
    /\ rb2.meta = rb1.meta
    /\ rb2.latest = rb1.latest

\* the rebuild run again on what the rebuild rb1 left
RebuildTwice(rb1) == SameRebuild(rb1, Rebuild(rb1.results, rb1.versions))

\* the program started again over the files the start st1 left
StartTwice(st1) == StartState(st1.mappings_file, st1.results_file) = st1

\* C6: the rebuild is idempotent.  From every state, and both over the
\* current version table and over an empty one, a second run of
\* _rebuild_everything_from_results gives the versions, counts and results of
\* the first; and a second load-and-rebuild over the same ledger, after a start
\* over the current or a legacy mapping file, gives the state of the first.
C6_RebuildIdempotent ==
    /\ \A versions \in {barcode_versions, EmptyDict} :
          RebuildTwice(Rebuild(results_data, versions))
    /\ \A mfile \in {mappings_file} \cup {LegacyFile(shape) : shape \in LegacyShapes} :
          StartTwice(StartState(mfile, results_file))

\* the program was started over a ledger of two keys whose records say
\* version 2: the rebuild numbered them 1 and 2
C6_LedgerRenumbered ==
    /\ results_file.shape = "array"
    /\ Len(results_file.records) = 2
    /\ results_file.records[1].version = 2
    /\ Len(results_data) = 2
    /\ results_data[1].barcode # results_data[2].barcode
    /\ results_data[1].version = 1
    /\ results_data[2].version = 2
    /\ variant_counts[results_data[1].barcode] = 1

\* the list without its i-th element
WithoutIndex(results, i) ==
    [j \in 1..(Len(results) - 1) |-> IF j < i THEN results[j] ELSE results[j + 1]]

\* the number of events of the list with barcode b
CountOf(results, b) == Cardinality({j \in DOMAIN results : results[j].barcode = b})

\* rb is the state after the deletion of exactly the i-th event: the other
\* events in place and in order, the counts recomputed, the versions untouched
RemovesOnly(results, versions, i, rb) ==
    /\ rb.results = WithoutIndex(results, i)
    /\ DOMAIN rb.counts = {rb.results[j].barcode : j \in DOMAIN rb.results}
    /\ \A b \in DOMAIN rb.counts : rb.counts[b] = CountOf(WithoutIndex(results, i), b)
    /\ rb.versions = versions

\* C7: deleting a scan event by its id (remove_result, remove_latest_scan)
\* removes exactly that event, leaves the others in place and in order,
\* recomputes the counts and changes no version, in every ledger the
\* application can hold, one loaded from a file included.
C7_RemoveOneEvent ==
    \A i \in DOMAIN results_data :
        RemovesOnly(results_data, barcode_versions, i,
                    Rebuild(WithoutId(results_data, results_data[i].id), barcode_versions))

(***************************************************************************)
(* The classifier (SpecParse)                                              *)
(***************************************************************************)
\* the positions of the exact mappings whose pattern is the code
ExactHits(maps, code) == {i \in DOMAIN maps : ~maps[i].regex /\ maps[i].pattern = code}

\* the positions of the regex mappings whose pattern compiles and is found in the code
RegexHits(maps, code) ==
    {i \in DOMAIN maps :
        maps[i].regex /\ ReCompiles(maps[i].pattern) /\ ReSearch(maps[i].pattern, code)}

FindAnswer(maps, code) ==
    IF ExactHits(maps, code) # {} THEN Some(maps[Least(ExactHits(maps, code))])
    ELSE IF RegexHits(maps, code) # {} THEN Some(maps[Least(RegexHits(maps, code))])
    ELSE None

\* C8: find(key) returns the first non-regex mapping in list order whose
\* pattern equals the key; only when there is none, the first regex mapping in
\* list order whose pattern matches; a regex mapping whose pattern is invalid
\* never matches and does not stop a later mapping; otherwise none.
C8_FindOrder == call.op = "find" => call.out = FindAnswer(mappings, call.code)

\* the first mapping is a regex that does not compile, and find() returned
\* the regex mapping after it
C8_InvalidRegexSkipped ==
    /\ call.op = "find"
    /\ Len(mappings) = 2
    /\ mappings[1].regex
    /\ ~ReCompiles(mappings[1].pattern)
    /\ mappings[2].regex
    /\ call.out = Some(mappings[2])

\* every field of the result is the mapping's, or decoded from the mapping's
\* own module class
FromMappingOnly(m, out) ==
    /\ out.size_gb = m.size_gb
    /\ out.manufacturer = m.manufacturer
    /\ out.module_class = m.module_class
    /\ out.mem_type \in {m.mem_type, DecodeClass(m.module_class).mem_type}
    /\ out.speed_mts \in {m.speed_mts, DecodeClass(m.module_class).speed}
    /\ out.ecc \in {m.ecc, DecodeClass(m.module_class).ecc}

\* C9: when a non-regex mapping whose pattern is the key exists, parse_barcode
\* takes every field from the first such mapping (and from its module class),
\* never from the heuristic rules: what the mapping leaves absent stays absent.
C9_MappingBeforeHeuristics ==
    (call.op = "parse" /\ ExactHits(mappings, call.code) # {}) =>
        FromMappingOnly(mappings[Least(ExactHits(mappings, call.code))], call.out)

\* the label the heuristics classify completely, under an exact mapping that
\* leaves every field absent: the result has no size and is incomplete
C9_AbsentStaysAbsent ==
    /\ call.op = "parse"
    /\ call.code = Str_Heur8
    /\ HeuristicRules(Str_Heur8).parsed_ok
    /\ ExactHits(mappings, Str_Heur8) # {}
    /\ mappings[Least(ExactHits(mappings, Str_Heur8))].size_gb = None
    /\ call.out.size_gb = None
    /\ call.out.mem_type = None
    /\ ~call.out.parsed_ok

\* size, speed, type and manufacturer of the result are all present
AllPresent(out) ==
    out.size_gb # None /\ out.speed_mts # None /\ out.mem_type # None /\ out.manufacturer # None

\* C10: the completeness flag of parse_barcode is true exactly when size,
\* speed, type and manufacturer are all present in the merged result, on the
\* mapping path and on the heuristic path, a numeric value of 0 included.
C10_CompleteIffPresent == call.op = "parse" => (call.out.parsed_ok <=> AllPresent(call.out))

(***************************************************************************)
(* Scan, save and classify (Spec)                                          *)
(***************************************************************************)
\* the mapping saved for M391 with size 8, class PC3-12800 and Samsung
IsM391Mapping(m) ==
    /\ m.pattern = Str_M391
    /\ ~m.regex
    /\ m.size_gb = Some(8)
    /\ m.module_class = Some(Upper(Str_PC3_12800))
    /\ m.manufacturer = Some("Samsung")

\* the one scan event of M391 after that save: complete, with type DDR3 and
\* speed 1600 decoded from the class, and version 1
IsM391Event(r) ==
    /\ r.barcode = Str_M391
    /\ r.size_gb = 8
    /\ r.speed_mts = 1600
    /\ r.mem_type = Str_DDR3
    /\ r.manufacturer = "Samsung"
    /\ r.version = 1

\* C11: from an empty store, registry and ledger, the scan of a key that no
\* mapping and no heuristic recognises is incomplete and registers nothing (no
\* step that saves no mapping registers M391 or records it); saving a mapping
\* for the key with size 8, class PC3-12800 and Samsung makes it complete with
\* type DDR3 and speed 1600, gives it version 1 and appends exactly one scan
\* event, the key's count being 1.
C11_ScanThenSave ==
    [][(mappings = <<>> /\ barcode_versions = EmptyDict /\ results_data = <<>>) =>
        /\ ~parse_barcode(KeyOfRaw[Str_M391], mappings).parsed_ok
        /\ (mappings' = mappings) =>
              /\ Str_M391 \notin DOMAIN barcode_versions'
              /\ \A i \in DOMAIN results_data' : results_data'[i].barcode # Str_M391
        /\ (Len(mappings') = 1 /\ IsM391Mapping(mappings'[1])) =>
              /\ parse_barcode(Str_M391, mappings').parsed_ok
              /\ barcode_versions' = Put(EmptyDict, Str_M391, 1)
              /\ Len(results_data') = 1
              /\ IsM391Event(results_data'[1])
              /\ variant_counts' = Put(EmptyDict, Str_M391, 1)]_vars

\* the state after that save in a fresh installation
C11_SavedAndCounted ==
    /\ Len(mappings) = 1
    /\ IsM391Mapping(mappings[1])
    /\ mappings[1].mem_type = Some(Str_DDR3)
    /\ mappings[1].speed_mts = Some(1600)
    /\ barcode_versions = Put(EmptyDict, Str_M391, 1)
    /\ Len(results_data) = 1
    /\ IsM391Event(results_data[1])
    /\ results_data[1].id = 1
    /\ variant_counts = Put(EmptyDict, Str_M391, 1)

(***************************************************************************)
(* The codec and the canonicalisation (SpecPure)                           *)
(***************************************************************************)
\* the speed is a value of COMMON_MB_TO_MTS
IsTableSpeed(speed_mts) ==
    speed_mts # None /\ \E i \in DOMAIN COMMON_MB_TO_MTS : COMMON_MB_TO_MTS[i][2] = speed_mts[1]

\* the type is DDR2, DDR3, DDR4 or DDR5
IsDdrGeneration(mem_type) ==
    mem_type \in {Some(<<"D", "D", "R", g>>) : g \in {"2", "3", "4", "5"}}

\* C12: for every DDR generation 2..5 and every speed that is a value of the
\* bandwidth table, parse_module_class(synth_module_class(type, speed)) gives
\* that speed and that type back.
C12_CodecRoundTrip ==
    (call.op = "synth" /\ IsDdrGeneration(call.mem_type) /\ IsTableSpeed(call.speed_mts)) =>
        /\ call.out # None
        /\ call.decoded.speed = call.speed_mts
        /\ call.decoded.mem_type = call.mem_type

\* DDR3 at 1066, a speed two bandwidths of the table map to: the class is
\* PC3-8500 and decodes to DDR3 at 1066
C12_Ddr3At1066 ==
    /\ call.op = "synth"
    /\ call.mem_type = Some(Str_DDR3)
    /\ call.speed_mts = Some(1066)
    /\ call.out = Some(<<"P", "C", "3", "-", "8", "5", "0", "0">>)
    /\ call.decoded.speed = Some(1066)
    /\ call.decoded.mem_type = Some(Str_DDR3)

\* the token is exactly two upper-case letters
IsCountryCode(token) == Len(token) = 2 /\ IsUpper(token[1]) /\ IsUpper(token[2])

\* the tokens left once a leading country code is dropped, which needs a second token
AfterCountryCode(tokens) ==
    IF Len(tokens) >= 2 /\ IsCountryCode(tokens[1]) THEN Tail(tokens) ELSE tokens

\* the last token when the last two of at least two are numbers, else the first
CandidateOf(tokens) ==
    IF Len(tokens) >= 2 /\ IsDigitStr(tokens[Len(tokens)]) /\ IsDigitStr(tokens[Len(tokens) - 1])
    THEN tokens[Len(tokens)] ELSE tokens[1]

\* the longest prefix of the token that holds no "+"
CutAtPlus(token) ==
    SubSeq(token, 1, CHOOSE n \in 0..Len(token) :
                        /\ \A k \in 1..n : token[k] # "+"
                        /\ (n < Len(token) => token[n + 1] = "+"))

\* C13: _clean_scanned_code follows the token rules for every token sequence:
\* an empty input gives the empty key; a leading token of exactly two
\* upper-case letters is dropped only when a second token exists; the candidate
\* is the last token when the last two of at least two remaining tokens are
\* all digits, else the first remaining token; the candidate is cut at its
\* first "+".
C13_TokenRules ==
    call.op = "clean" =>
        call.out = IF Len(call.tokens) = 0 THEN <<>>
                   ELSE CutAtPlus(CandidateOf(AfterCountryCode(call.tokens)))

\* a country code followed by two numbers, with whitespace around and between
\* the tokens: the key is the last number
C13_CountryCodeTwoNumbers ==
    /\ call.op = "clean"
    /\ call.tokens = << <<"C", "N">>, <<"1", "0", "6">>, <<"1", "2", "3">> >>
    /\ Len(call.raw) > 10
    /\ call.out = <<"1", "2", "3">>

(***************************************************************************)
(* The mapping store (Spec)                                                *)
(***************************************************************************)
\* what the step remove_index(idx) has to do: nothing for an idx outside
\* 0..len-1, and for a valid one remove that mapping and persist the store
RemoveIndexContract(idx) ==
    IF idx < 0 \/ idx >= Len(mappings)
    THEN UNCHANGED <<mappings, store_versions, barcode_versions, mappings_file>>
    ELSE /\ mappings' = WithoutIndex(mappings, idx + 1)
         /\ UNCHANGED <<store_versions, barcode_versions>>
         /\ mappings_file' = SavedStore(mappings', store_versions')

\* C14: remove_index(idx) with idx outside the valid positions 0..len-1 is a
\* no-op for every integer idx, the negative ones included: the mapping list,
\* the version table and the persisted file are unchanged; with a valid idx
\* exactly that mapping is removed and the store is persisted.
C14_RemoveIndexRange ==
    [][\A idx \in (0 - MaxMappings - 1)..(MaxMappings + 1) :
          RemoveIndex(idx) => RemoveIndexContract(idx)]_vars

(***************************************************************************)
(* Loading malformed files (SpecPure)                                      *)
(***************************************************************************)
\* C15: loading a malformed mapping file never fails: for every shape of the
\* file (missing, not parsable, a scalar, a list or an object whose records
\* lack fields, carry unknown fields or are no records, or whose versions are
\* no integers) MappingStore.load raises nothing and ends with a store, the
\* empty one when the file is missing, not parsable or a scalar.
C15_LoadNeverFails ==
    call.op = "load" =>
        /\ ~call.raised
        /\ call.store # None
        /\ call.file.shape \in {"missing", "corrupt", "scalar"} =>
              call.store = Some([mappings |-> <<>>, versions |-> EmptyDict])

(***************************************************************************)
(* The persisted files and the ledger (Spec, SpecLegacy, SpecEnv)          *)
(***************************************************************************)
\* the persisted ledger holds the (id, key, version) records of the in-memory
\* list; a ledger file never written stands for the empty list
LedgerPersisted(file, results) ==
    \/ file = SavedResults(results)
    \/ file.shape = "missing" /\ results = <<>>

\* C16: read-your-writes.  When an operation has returned (add_result,
\* on_save_mapping, remove_index, remove_result, remove_latest_scan,
\* clear_results_and_counts, the rebuild), the persisted mapping file holds
\* the in-memory mapping list and version table, the store's table being the
\* App's, and the persisted ledger holds the in-memory (id, key, version) records.
C16_ReadYourWrites ==
    /\ mappings_file = SavedStore(mappings, store_versions)
    /\ store_versions = barcode_versions
    /\ LedgerPersisted(results_file, results_data)

\* the ids of the list are in strictly ascending order
AscendingIds(results) ==
    \A i, j \in DOMAIN results : i < j => results[i].id < results[j].id

\* the step keeps the id counter from falling, so that it stays at or above
\* every id issued or loaded so far, and an event the step appends has an id
\* above the counter and above every id of the ledger
IssuesFreshId(seq_before, seq_after, results_before, results_after) ==
    /\ seq_after >= seq_before
    /\ (/\ Len(results_after) = Len(results_before) + 1
        /\ SubSeq(results_after, 1, Len(results_before)) = results_before) =>
          /\ results_after[Len(results_after)].id > seq_before
          /\ \A i \in DOMAIN results_before :
                results_after[Len(results_after)].id > results_before[i].id

\* C17: scan-event ids come from a counter that only grows and is seeded from
\* the greatest id at load time, and an id is never reused: every id add_result
\* issues is greater than every id issued or loaded before, also after the
\* deletion of scan events or clear-all followed by a reload; the ledger is
\* always in strictly ascending id order.
C17_IdsNeverReused ==
    /\ []AscendingIds(results_data)
    /\ [][IssuesFreshId(result_seq, result_seq', results_data, results_data')]_vars

\* C18: after every operation the count of every key is the number of scan
\* events of the in-memory ledger with that key, and a key without events has
\* no count: across scans, mapping saves, deletions of scan events, clear-all
\* and load-and-rebuild.
C18_CountsMatchLedger ==
    /\ DOMAIN variant_counts = {results_data[i].barcode : i \in DOMAIN results_data}
    /\ \A b \in DOMAIN variant_counts : variant_counts[b] = CountOf(results_data, b)

\* two scans of one key are held and counted as 2, and a second key that is
\* registered has no event and no count
C18_TwoScansCounted ==
    /\ Len(results_data) = 2
    /\ results_data[1].barcode = Str_Heur8
    /\ results_data[2].barcode = Str_Heur8
    /\ variant_counts = Put(EmptyDict, Str_Heur8, 2)
    /\ DOMAIN barcode_versions = {Str_M391, Str_Heur8}
    /\ mappings = <<>>

\* the least id among the events of the list with barcode b
FirstIdOf(results, b) ==
    Least({results[i].id : i \in {j \in DOMAIN results : results[j].barcode = b}})

\* the versions of the rebuild rb follow the ids: a key whose first event has
\* the lower id has the lower version
VersionsFollowIds(rb) ==
    \A i, j \in DOMAIN rb.results :
        FirstIdOf(rb.results, rb.results[i].barcode) < FirstIdOf(rb.results, rb.results[j].barcode)
            => rb.versions[rb.results[i].barcode] < rb.versions[rb.results[j].barcode]

\* C19: on load the persisted list is replayed in ascending id order and each
\* entry whose key is unregistered receives the next version in that order, for
\* every content of the ledger file, one whose records are not stored in
\* ascending id order included: loading the ledger file into an empty registry
\* gives the key whose first event has the lower id the lower version.
C19_ReplayInIdOrder ==
    VersionsFollowIds(Rebuild(load_results_file(results_file, mappings), EmptyDict))

(***************************************************************************)
(* Backfill from the module class (SpecParse)                              *)
(***************************************************************************)
\* a field the mapping stores is returned as stored; an absent one is what
\* the decoded class gives
StoredOrDecoded(stored, decoded, out) ==
    out = IF stored # None THEN stored ELSE decoded

\* C20: when the matching mapping carries a module class, parse_barcode fills
\* type, speed and ECC from the decoded class only where the mapping leaves
\* them absent: every value the mapping stores (ECC false and a speed of 0
\* included) is returned unchanged, and size and manufacturer are the mapping's.
C20_BackfillOnlyAbsent ==
    (/\ call.op = "parse"
     /\ FindAnswer(mappings, call.code) # None
     /\ FindAnswer(mappings, call.code)[1].module_class # None) =>
        /\ call.out.size_gb = FindAnswer(mappings, call.code)[1].size_gb
        /\ call.out.manufacturer = FindAnswer(mappings, call.code)[1].manufacturer
        /\ StoredOrDecoded(FindAnswer(mappings, call.code)[1].ecc,
                           parse_module_class(FindAnswer(mappings, call.code)[1].module_class[1]).ecc,
                           call.out.ecc)
        /\ StoredOrDecoded(FindAnswer(mappings, call.code)[1].mem_type,
                           parse_module_class(FindAnswer(mappings, call.code)[1].module_class[1]).mem_type,
                           call.out.mem_type)
        /\ StoredOrDecoded(FindAnswer(mappings, call.code)[1].speed_mts,
                           parse_module_class(FindAnswer(mappings, call.code)[1].module_class[1]).speed,
                           call.out.speed_mts)

(***************************************************************************)
(* Scans that are not classified (Spec)                                    *)
(***************************************************************************)
\* C21: a scan whose classification is incomplete appends no ScanEvent, assigns
\* no version and leaves the counts, the id counter, the mapping list and both
\* persisted files unchanged.
C21_IncompleteScanChangesNothing ==
    [][\A raw \in ScanInputs :
          (/\ OnScanSubmit(raw)
           /\ ~parse_barcode(KeyOfRaw[raw], mappings).parsed_ok) =>
              UNCHANGED <<mappings, store_versions, barcode_versions, variant_counts,
                          variant_meta, results_data, result_seq, latest_item_id,
                          mappings_file, results_file>>]_vars

\* a scan of M391 is incomplete although a mapping for M391 is stored and the
\* key is registered, while the ledger holds a scan of another key
C21_IncompleteWithHistory ==
    /\ ~parse_barcode(KeyOfRaw[Str_M391], mappings).parsed_ok
    /\ find(mappings, Str_M391) # None
    /\ Str_M391 \in DOMAIN barcode_versions
    /\ Len(results_data) > 0
    /\ results_file.shape = "array"

(***************************************************************************)
(* Mapping saves and the ledger (Spec)                                     *)
(***************************************************************************)
\* C22: a mapping save for a key that already classified as complete before
\* the save appends no ScanEvent and leaves that key's count unchanged.
C22_SaveForClassifiedKeyAddsNoEvent ==
    [][\A form \in FormInputs :
          (/\ OnSaveMapping(form)
           /\ parse_barcode(KeyOfRaw[form.code], mappings).parsed_ok) =>
              /\ results_data' = results_data
              /\ Get0(variant_counts', KeyOfRaw[form.code]) =
                     Get0(variant_counts, KeyOfRaw[form.code])]_vars

(***************************************************************************)
(* The speed and the ECC hint of a module class (SpecPure)                 *)
(***************************************************************************)
\* the bandwidths of the fixed table
TableBandwidths == {COMMON_MB_TO_MTS[i][1] : i \in DOMAIN COMMON_MB_TO_MTS}

\* s is rating / 8 rounded to an integer: no integer is nearer to rating / 8
NearestEighth(rating, s) == 8 * s - rating <= 4 /\ rating - 8 * s <= 4

\* the speed is resolved from the rating in the order table, below 4000, round
SpeedResolved(rating, speed) ==
    IF rating \in TableBandwidths
    THEN \E i \in DOMAIN COMMON_MB_TO_MTS : COMMON_MB_TO_MTS[i] = <<rating, speed>>
    ELSE IF rating < 4000 THEN speed = rating
    ELSE speed >= 1 /\ NearestEighth(rating, speed)

\* C23: parse_module_class resolves the speed from a rating of 3 to 6 digits
\* in this order: the table value if the rating is a key of the table, else
\* the rating itself if it is below 4000, else round(rating / 8), at least 1.
\* The ECC hint is true exactly when the suffix holds E or Q and absent
\* otherwise, never false.
C23_SpeedAndEccOfRating ==
    call.op = "decode" =>
        /\ call.out.speed # None
        /\ SpeedResolved(ToInt(call.rating), call.out.speed[1])
        /\ call.out.ecc = IF \E i \in DOMAIN call.suffix : call.suffix[i] \in {"E", "e", "Q", "q"}
                          THEN Some(TRUE) ELSE None

\* the rating 4005 is no key of the table and not below 4000: with the suffix
\* RE the speed is 501 and the hint true
C23_Rating4005 ==
    /\ call.op = "decode"
    /\ call.rating = <<"4", "0", "0", "5">>
    /\ call.suffix = <<"R", "E">>
    /\ call.out.speed = Some(501)
    /\ call.out.ecc = Some(TRUE)

(***************************************************************************)
(* The module class built from type and speed (SpecPure)                   *)
(***************************************************************************)
\* the type is DDR followed by a generation digit
IsDdrAndDigit(mem_type) ==
    /\ mem_type # None
    /\ Len(mem_type[1]) >= 4
    /\ SubSeq(mem_type[1], 1, 3) = <<"D", "D", "R">>
    /\ IsDigit(mem_type[1][4])

\* the lowest bandwidth the table maps to the speed; for a speed the table
\* does not hold, the multiple of 100 nearest to speed * 8
BandwidthOfSpeed(speed) ==
    IF IsTableSpeed(Some(speed))
    THEN Least({COMMON_MB_TO_MTS[i][1] : i \in {j \in DOMAIN COMMON_MB_TO_MTS : COMMON_MB_TO_MTS[j][2] = speed}})
    ELSE CHOOSE mb \in {100 * k : k \in 0..((speed * 8) \div 100 + 1)} :
            mb - speed * 8 <= 50 /\ speed * 8 - mb <= 50

\* C24: synth_module_class(memType, speed) returns absent when speed is absent
\* or memType is not DDR followed by a generation digit; otherwise it returns
\* PC<gen>-<bandwidth>, the bandwidth being the lowest table bandwidth mapped
\* to the speed and, for a speed not in the table, speed*8 rounded to the
\* nearest 100.
C24_SynthContract ==
    call.op = "synth" =>
        call.out = IF call.speed_mts = None \/ ~IsDdrAndDigit(call.mem_type) THEN None
                   ELSE Some(<<"P", "C", call.mem_type[1][4], "-">>
                                \o IntToStr(BandwidthOfSpeed(call.speed_mts[1])))

\* the type in upper case with every character but A-Z and 0-9 removed
NormalType(mem_type) ==
    IF mem_type = None THEN None
    ELSE Some(SelectSeq(Upper(mem_type[1]), LAMBDA c : IsUpper(c) \/ IsDigit(c)))

\* C24 (amended): synth_module_class(memType, speed) returns absent when speed
\* is absent or 0, or when memType, in upper case and with every character but
\* A-Z and 0-9 removed, is not DDR followed by a digit; otherwise it returns
\* PC<that digit>-<bandwidth>, the bandwidth being the lowest table bandwidth
\* mapped to the speed and, for a speed not in the table, speed*8 rounded to
\* the nearest 100.
C24_SynthNormalised ==
    call.op = "synth" =>
        call.out = IF \/ call.speed_mts \in {None, Some(0)}
                      \/ ~IsDdrAndDigit(NormalType(call.mem_type))
                   THEN None
                   ELSE Some(<<"P", "C", NormalType(call.mem_type)[1][4], "-">>
                                \o IntToStr(BandwidthOfSpeed(call.speed_mts[1])))

\* the type written "ddr 3" at 1866, a speed two bandwidths of the table map
\* to, gives PC3-14900
C24_LowerCaseDdr3At1866 ==
    /\ call.op = "synth"
    /\ call.mem_type = Some(<<"d", "d", "r", " ", "3">>)
    /\ call.speed_mts = Some(1866)
    /\ call.out = Some(<<"P", "C", "3", "-", "1", "4", "9", "0", "0">>)

(***************************************************************************)
(* Canonicalisation applied twice (SpecPure)                               *)
(***************************************************************************)
\* C25: _clean_scanned_code is idempotent on its own output, for every raw
\* input x: _clean_scanned_code(_clean_scanned_code(x)) = _clean_scanned_code(x),
\* the output being a single token with no whitespace and no "+".
C25_CleanIdempotent ==
    call.op = "clean" =>
        /\ clean_scanned_code(call.out) = call.out
        /\ \A i \in DOMAIN call.out : ~IsSpace(call.out[i]) /\ call.out[i] # "+"

\* a raw text of three tokens behind a country code whose key is cut at "+":
\* the key M3 is its own key
C25_ThreeTokensCutAtPlus ==
    /\ call.op = "clean"
    /\ call.tokens = << <<"C", "N">>, <<"M", "3", "+", "A", "B">>, <<"K", "R", "X">> >>
    /\ call.out = <<"M", "3">>
    /\ call.raw # call.out
    /\ clean_scanned_code(call.out) = call.out

(***************************************************************************)
(* The legacy shape of user_mappings.json (SpecPure)                       *)
(***************************************************************************)
\* the mapping m is the record f of the file, with module class and ECC
\* absent and the regex flag false where f does not give them
IsRecordWithDefaults(f, m) ==
    /\ DOMAIN m = {"pattern", "size_gb", "speed_mts", "mem_type", "manufacturer",
                   "module_class", "ecc", "regex"}
    /\ \A k \in DOMAIN f : m[k] = f[k]
    /\ "module_class" \notin DOMAIN f => m.module_class = None
    /\ "ecc" \notin DOMAIN f => m.ecc = None
    /\ "regex" \notin DOMAIN f => m.regex = FALSE

\* the file is a bare array of mapping records
IsLegacyFile(file) ==
    /\ file.shape = "array"
    /\ \A i \in DOMAIN file.records : file.records[i].kind = "full"

\* C26: a mapping file in the legacy shape loads every record as a mapping in
\* file order, module class and ECC absent and the regex flag false where the
\* record lacks them, with an empty version table; the first rebuild after
\* such a load writes the file in the object shape, with these mappings and
\* the versions of the rebuild.
C26_LegacyShapeLoads ==
    (call.op = "load" /\ IsLegacyFile(call.file)) =>
        /\ ~call.raised
        /\ Len(call.store[1].mappings) = Len(call.file.records)
        /\ \A i \in DOMAIN call.file.records :
              IsRecordWithDefaults(call.file.records[i].fields, call.store[1].mappings[i])
        /\ call.store[1].versions = EmptyDict
        /\ call.started[1].shape = "object"
        /\ call.started[1].mappings = call.store[1].mappings
        /\ call.started[1].versions = Put(EmptyDict, Str_Heur8, 1)

\* a legacy file of two records, the first without module class, ECC and
\* regex flag, the second without regex flag: both are loaded, in this order
C26_TwoLegacyRecords ==
    /\ call.op = "load"
    /\ IsLegacyFile(call.file)
    /\ Len(call.file.records) = 2
    /\ DOMAIN call.file.records[1].fields =
           {"pattern", "size_gb", "speed_mts", "mem_type", "manufacturer"}
    /\ "regex" \notin DOMAIN call.file.records[2].fields
    /\ call.store[1].mappings[1].pattern = <<"8", "g", "b">>
    /\ call.store[1].mappings[1].regex = FALSE
    /\ call.store[1].mappings[2].ecc = Some(TRUE)
    /\ call.started[1].shape = "object"

(***************************************************************************)
(* The two files between two writes (SpecCrash)                            *)
(***************************************************************************)
\* every key of the persisted ledger has an entry in the persisted version table
LedgerKeysRegistered(mfile, rfile) ==
    \A i \in DOMAIN rfile.records : rfile.records[i].barcode \in DOMAIN mfile.versions

\* a start over the two files gives every key of versions the version it has there
ReloadKeepsVersions(mfile, rfile, versions) ==
    \A k \in DOMAIN versions :
        /\ k \in DOMAIN StartState(mfile, rfile).barcode_versions
        /\ StartState(mfile, rfile).barcode_versions[k] = versions[k]

\* C27: starting from empty files, at every point between the file writes of
\* an operation (and after every operation), every key of the persisted ledger
\* has an entry in the persisted version table, and a crash at that point
\* followed by a reload gives no key a version other than the one it had.
C27_CrashKeepsVersions ==
    /\ LedgerKeysRegistered(mappings_file, results_file)
    /\ call.op = "crashed" => ReloadKeepsVersions(mappings_file, results_file, call.versions)

\* the program stopped in the scan of a second key: the store file already
\* holds the new key's version 2, the ledger file only the first key's scan
C27_CrashedBeforeLedgerWrite ==
    /\ call.op = "crashed"
    /\ Str_Heur8 \notin DOMAIN barcode_versions
    /\ Str_Heur8 \in DOMAIN mappings_file.versions
    /\ mappings_file.versions[Str_Heur8] = 2
    /\ call.versions = mappings_file.versions
    /\ Len(results_file.records) = 1
    /\ results_file.records[1].barcode # Str_Heur8

(***************************************************************************)
(* The events and the version table in memory (SpecEnv)                    *)
(***************************************************************************)
\* C28: after every operation, every ScanEvent of the in-memory ledger has a
\* key that is registered in the version table, and the event's version
\* field is the version the table holds for that key.
C28_EventsCarryTableVersion ==
    \A i \in DOMAIN results_data :
        /\ results_data[i].barcode \in DOMAIN barcode_versions
        /\ results_data[i].version = barcode_versions[results_data[i].barcode]

\* two events of two keys are held with the versions 1 and 2 of the table,
\* the first of them read from a ledger file that gave it version 2
C28_FileVersionReplaced ==
    /\ Len(results_data) = 2
    /\ results_data[1].barcode # results_data[2].barcode
    /\ results_data[1].version = 1
    /\ results_data[2].version = 2
    /\ results_file.shape = "array"
    /\ Len(results_file.records) >= 1
    /\ results_file.records[1].barcode = results_data[1].barcode
    /\ results_file.records[1].version = 2

(***************************************************************************)
(* The ledger written and read back (Spec)                                 *)
(***************************************************************************)
\* the ids and keys of the events, in order
IdsAndKeys(results) == [i \in DOMAIN results |-> <<results[i].id, results[i].barcode>>]

\* C29: for every ledger the program reaches through scans and mapping saves,
\* events with the empty key included, writing it with _save_results_file and
\* reading it back with _load_results_file gives the same sequence of
\* (id, key) records, so the count of every key is the same after a restart.
C29_LedgerRoundTrip ==
    /\ IdsAndKeys(load_results_file(SavedResults(results_data), mappings)) = IdsAndKeys(results_data)
    /\ RebuildCounts(load_results_file(SavedResults(results_data), mappings)) = variant_counts

====
